---- MODULE Spec2Model ----
(***************************************************************************)
(* Telemetry fan-out pipeline and alert evaluator of savonia-iot.          *)
(*                                                                         *)
(* Timestamps are instants in milliseconds (what Date.getTime() yields for *)
(* the ISO string of a message); T == 0 is the scenario's origin.          *)
(* A nullable value is a sequence: <<>> is null/undefined, <<v>> is v.     *)
(***************************************************************************)
EXTENDS Integers, Sequences, FiniteSets, Bags, TLC

VARIABLES
    triggers,   \* table alert_triggers
    alerts,     \* table alerts (a set of rows)
    alertSeq,   \* last value handed out by the BIGSERIAL sequence alerts.id
    ev,         \* concurrent evaluator invocations: [pc, msg, trigger, open]
    scen,       \* monitor: the end-to-end scenario replayed so far
    runs        \* monitor: parity of the number of completed invocations

alertVars == <<triggers, alerts, alertSeq, ev, scen, runs>>

VARIABLES
    pIn,        \* parseTelemetryBatch: its argument `events`
    pI,         \* index of the next item of the for loop
    pOk,        \* ok
    pBad        \* bad

parseVars == <<pIn, pI, pOk, pBad>>

VARIABLES
    iPc,        \* ingest: "idle", "running", "returned" or "raised"
    iIn,        \* the Event Hub batch of the invocation
    iEnv,       \* process.env.QUEUE_ENQUEUE_CONCURRENCY
    iOk,        \* ok of parseTelemetryBatch
    iNext,      \* pMap: index of the next element to start a mapper for
    iSend,      \* per element and queue, the state of its sendMessage call
    iDeliveries, \* deliveries of the batch so far
    iPast       \* iSend at the end of the earlier deliveries
ingestVars == <<iPc, iIn, iEnv, iOk, iNext, iSend, iDeliveries, iPast>>

VARIABLES
    queues      \* the three storage queues: a bag of message texts each

VARIABLES
    writers,    \* runTimescaleWriter invocations
    telemetry   \* table telemetry (a set of rows)
writerVars == <<writers, telemetry>>

VARIABLES
    blobs,      \* cold container: blob name -> lines of the append blob
    blobLog,    \* what each runBlobWriter invocation logged, and how it ended
    containerEnsured,   \* module variable of blob-writer.ts
    appenders   \* runBlobWriter invocations under way, their mappers call by call
blobVars == <<blobs, blobLog, containerEnsured, appenders>>

VARIABLES
    qPayload,   \* normalizeQueueMessage: its argument (none before the call)
    qItems,     \* normalizeQueueMessage: the list it returned
    qPc         \* "off", "called", "returned" or "raised"
normalizeVars == <<qPayload, qItems, qPc>>

VARIABLES
    alertLog    \* how each alert() invocation on a queue item ended

VARIABLES
    httpLog     \* the responses of getTrigger, one per request, in order

VARIABLES
    measurements,   \* table measurements of the edge SQLite buffer
    transferrer,    \* the loop of measurement-transferrer.ts main()
    hub             \* the messages IoT Hub has acknowledged

VARIABLES
    sensor_seq,     \* table sensor_seq of the edge SQLite buffer
    dbWriter,       \* the connection that holds SQLite's write lock, or "none"
    readers,        \* sensor-reader processes inside nextSeq
    seqLog          \* per sensor, the values nextSeq has returned, in order
seqVars == <<sensor_seq, dbWriter, readers, seqLog>>

edgeVars == <<measurements, transferrer, hub, seqVars>>

\* sensor-reader processes that share the buffer, and the sensors they read
SensorReaders == {"reader1", "reader2"}
SeqSensors == {"cpu-temp", "door"}

IdleReader == [pc |-> "idle", sensorId |-> "", next |-> 0, undo |-> {}]

vars == <<alertVars, parseVars, ingestVars, queues, writerVars, blobVars,
          normalizeVars, alertLog, httpLog, edgeVars>>
nonAlertVars == <<parseVars, ingestVars, queues, writerVars, blobVars,
                  normalizeVars, alertLog, httpLog, edgeVars>>
nonParseVars == <<alertVars, ingestVars, queues, writerVars, blobVars,
                  normalizeVars, alertLog, httpLog, edgeVars>>

Null == <<>>
Some(v) == <<v>>
IsNull(o) == o = <<>>
Get(o) == o[1]

----------------------------------------------------------------------------
(* Bounds of the model *)

\* alerts.id values the sequence may hand out
MaxAlertId == 3
\* the same where invocations race
MaxRaceAlertId == 2
\* events in one Event Hub batch
MaxBatch == 3
\* evaluator invocations that may run at the same time
NumEvaluators == 2
\* runTimescaleWriter invocations that may run at the same time
NumWriters == 2
\* invocations of the Archive Writer in a behaviour
MaxBlobRuns == 2
\* invocations of alert() on queue items in a behaviour
MaxAlertRuns == 3
\* times the Event Hub trigger hands one batch to ingest
MaxDeliveries == 2

----------------------------------------------------------------------------
(* The pipeline before anything has arrived *)

Queues == {"db", "alerts", "blob"}

EmptyBatch == [isArray |-> TRUE, items |-> <<>>]

InitIngest ==
    /\ iPc = "idle"
    /\ iIn = EmptyBatch
    /\ iEnv = "unset"
    /\ iOk = <<>>
    /\ iNext = 1
    /\ iSend = <<>>
    /\ iDeliveries = 0
    /\ iPast = <<>>

InitQueues == queues = [q \in Queues |-> EmptyBag]

\* log: what the invocation logged for each item it has processed
IdleWriter == [pc |-> "idle", batch |-> <<>>, i |-> 1, inserted |-> 0, failed |-> 0,
               log |-> <<>>]

InitWriter ==
    /\ writers = [w \in 1..NumWriters |-> IdleWriter]
    /\ telemetry = {}

\* runBlobWriter invocations that may run at the same time
ArchiveInvocations == {"A", "B"}

IdleAppender == [pc |-> "idle", item |-> <<>>, stage |-> <<>>]

InitBlob ==
    /\ blobs = <<>>
    /\ blobLog = <<>>
    /\ containerEnsured = FALSE
    /\ appenders = [a \in ArchiveInvocations |-> IdleAppender]

ParseOff == pIn = EmptyBatch /\ pI = 1 /\ pOk = <<>> /\ pBad = <<>>

NormalizeOff == qPayload = <<>> /\ qItems = <<>> /\ qPc = "off"

InitAlertLog == alertLog = <<>>

InitHttp == httpLog = <<>>

\* openDb on a new file, the loop before its first fetchUnsentBatch
InitEdge ==
    /\ measurements = {}
    /\ transferrer = [pc |-> "fetch", id |-> 0, attempts |-> 0, outcome |-> "none"]
    /\ hub = {}
    /\ sensor_seq = {}
    /\ dbWriter = "none"
    /\ readers = [p \in SensorReaders |-> IdleReader]
    /\ seqLog = [s \in SeqSensors |-> <<>>]

----------------------------------------------------------------------------
(* Measurement domain *)

Minute == 60000

\* JavaScript values of a message's `value`: its typeof, Number(value) (null
\* for NaN) and String(value)
NumberOfText(s) == IF s = "21" THEN Some(21) ELSE Null
JsNum(n) == [type |-> "number", num |-> Some(n), text |-> ToString(n)]
JsStr(s) == [type |-> "string", num |-> NumberOfText(s), text |-> s]
JsBool(b) == [type |-> "boolean", num |-> Some(IF b THEN 1 ELSE 0),
              text |-> IF b THEN "true" ELSE "false"]

\* the parts of the model that a specification leaves out stay as they start

Device == "pi-01"
Sensors == {"cpu-temp", "room-temp", "door"}

\* queue items the evaluator may be handed; valueTypeOf is typeof valueType
NumericMsg(s, t, v) ==
    [deviceId |-> Some(Device), sensorId |-> Some(s), ts |-> Some(t),
     valueType |-> "number", valueTypeOf |-> "string", value |-> JsNum(v)]

\* cpu-temp has max 70: readings above it at three instants, legal readings at
\* the instants of the scenario and at the one-second boundary pair
CpuMsgs ==
    {NumericMsg("cpu-temp", 0, 72), NumericMsg("cpu-temp", 5 * Minute, 75),
     NumericMsg("cpu-temp", 16 * Minute, 75)}
    \cup {NumericMsg("cpu-temp", t, 60) :
            t \in {0, 8 * Minute, 10 * Minute - 1000, 10 * Minute, 16 * Minute}}

\* room-temp has min 65
RoomMsgs ==
    {NumericMsg("room-temp", 0, 60), NumericMsg("room-temp", 10 * Minute, 72)}

\* door has a disabled trigger
DoorMsgs == {NumericMsg("door", 0, 75)}

NumericMsgs == CpuMsgs \cup RoomMsgs \cup DoorMsgs

IgnoredMsgs ==
    { \* boolean measurement
      [deviceId |-> Some(Device), sensorId |-> Some("cpu-temp"), ts |-> Some(0),
       valueType |-> "boolean", valueTypeOf |-> "string", value |-> JsBool(TRUE)],
      \* numeric valueType, value a string that is no number
      [deviceId |-> Some(Device), sensorId |-> Some("cpu-temp"), ts |-> Some(0),
       valueType |-> "number", valueTypeOf |-> "string", value |-> JsStr("abc")],
      \* unparsable timestamp
      [deviceId |-> Some(Device), sensorId |-> Some("cpu-temp"), ts |-> Null,
       valueType |-> "number", valueTypeOf |-> "string", value |-> JsNum(75)],
      \* missing sensorId
      [deviceId |-> Some(Device), sensorId |-> Null, ts |-> Some(0),
       valueType |-> "number", valueTypeOf |-> "string", value |-> JsNum(75)] }

AlertMsgs == NumericMsgs \cup IgnoredMsgs

\* items used where evaluator invocations race
RaceMsgs ==
    {NumericMsg("cpu-temp", 0, 72), NumericMsg("cpu-temp", 10 * Minute, 60),
     NumericMsg("room-temp", 0, 60)}

----------------------------------------------------------------------------
(* Schema: alert_triggers and alerts *)

TriggerRows ==
    { [id |-> 1, deviceId |-> Device, sensorId |-> "cpu-temp",
       minValue |-> Null, maxValue |-> Some(70), enabled |-> TRUE],
      [id |-> 2, deviceId |-> Device, sensorId |-> "room-temp",
       minValue |-> Some(65), maxValue |-> Null, enabled |-> TRUE],
      [id |-> 3, deviceId |-> Device, sensorId |-> "door",
       minValue |-> Null, maxValue |-> Some(70), enabled |-> FALSE] }

IsOpen(a) == IsNull(a.endTs)

OpenAlerts(rows, d, s) == {a \in rows : a.deviceId = d /\ a.sensorId = s /\ IsOpen(a)}

\* unique index alerts_one_open_per_device_sensor: may `row` be stored
\* beside `others`?
NoUniqueIndex(others, row) == TRUE

alerts_one_open_per_device_sensor(others, row) ==
    IsOpen(row) => OpenAlerts(others, row.deviceId, row.sensorId) = {}

\* CHECK (end_ts IS NULL OR end_ts >= start_ts)
alerts_end_after_start_chk(row) ==
    IsNull(row.endTs) \/ Get(row.endTs) >= row.startTs

RowAccepted(others, row) ==
    /\ alerts_one_open_per_device_sensor(others, row)
    /\ alerts_end_after_start_chk(row)

----------------------------------------------------------------------------
(* SQL statements of the evaluator (shared/sql.ts) *)

\* Sql.selectEnabledAlertTriggerByDeviceSensor
selectEnabledAlertTriggerByDeviceSensor(trigs, d, s) ==
    {t \in trigs : t.deviceId = d /\ t.sensorId = s}

\* Sql.selectOpenAlertByTriggerId
selectOpenAlertByTriggerId(rows, triggerId) ==
    {a \in rows : a.triggerId = triggerId /\ IsOpen(a)}

\* Sql.insertAlert: the id is drawn from the sequence before the constraints
\* are checked, so a rejected insert consumes it too
insertAlert(rows, seq, triggerId, d, s, ts, reason, context) ==
    LET row == [id |-> seq + 1, triggerId |-> triggerId, deviceId |-> d,
                sensorId |-> s, startTs |-> ts, endTs |-> Null,
                reason |-> reason, context |-> context]
    IN  IF RowAccepted(rows, row)
        THEN [rows |-> rows \cup {row}, seq |-> seq + 1, threw |-> FALSE]
        ELSE [rows |-> rows, seq |-> seq + 1, threw |-> TRUE]

UpdateRow(rows, id, new) ==
    LET hit == {a \in rows : a.id = id}
        rest == rows \ hit
    IN  IF hit = {} THEN [rows |-> rows, threw |-> FALSE]
        ELSE LET a == CHOOSE a \in hit : TRUE
             IN  IF RowAccepted(rest, new[a])
                 THEN [rows |-> rest \cup {new[a]}, threw |-> FALSE]
                 ELSE [rows |-> rows, threw |-> TRUE]

\* Sql.updateAlertContext
updateAlertContext(rows, id, context) ==
    UpdateRow(rows, id, [a \in rows |-> [a EXCEPT !.context = context]])

\* Sql.closeAlert
closeAlert(rows, id, ts) ==
    UpdateRow(rows, id, [a \in rows |-> [a EXCEPT !.endTs = Some(ts)]])

----------------------------------------------------------------------------
(* Alert evaluator (functions/alert.ts) *)

toNumber(v) ==
    IF v.type \in {"number", "string"} THEN v.num ELSE Null

\* line 59: .toLowerCase() of a valueType that is present and no string
parseMessageThrows(m) == m.valueTypeOf \notin {"string", "undefined"}

parseMessage(m) ==
    IF IsNull(m.deviceId) \/ IsNull(m.sensorId) \/ IsNull(m.ts) THEN Null
    ELSE IF m.valueType # "" /\ m.valueType # "number" THEN Null
    ELSE IF IsNull(toNumber(m.value)) THEN Null
    ELSE Some([deviceId |-> Get(m.deviceId), sensorId |-> Get(m.sensorId),
               tsIso |-> Get(m.ts), value |-> Get(toNumber(m.value))])

buildReason(sensorId, value, min, max) ==
    IF ~IsNull(min) /\ ~IsNull(max)
    THEN IF value < Get(min) THEN <<sensorId, value, "is below min", Get(min)>>
         ELSE IF value > Get(max) THEN <<sensorId, value, "is above max", Get(max)>>
         ELSE <<sensorId, value, "is outside range", Get(min), Get(max)>>
    ELSE IF ~IsNull(min) THEN <<sensorId, value, "is below min", Get(min)>>
    ELSE IF ~IsNull(max) THEN <<sensorId, value, "is above max", Get(max)>>
    ELSE <<sensorId, value, "is out of bounds">>

getLastOobTs(alert) == alert.context.lastOutOfBoundsTs

addMinutes(d, minutes) == d + minutes * Minute

getEnabledTrigger(trigs, d, s) ==
    LET res == selectEnabledAlertTriggerByDeviceSensor(trigs, d, s)
    IN  IF res = {} THEN Null
        ELSE LET row == CHOOSE t \in res : TRUE
             IN  IF ~row.enabled THEN Null ELSE Some(row)

getOpenAlert(rows, triggerId) ==
    LET res == selectOpenAlertByTriggerId(rows, triggerId)
    IN  IF res = {} THEN Null ELSE Some(CHOOSE a \in res : TRUE)

OobContext(tsIso, value, min, max) ==
    [value |-> value, min |-> min, max |-> max, lastOutOfBoundsTs |-> tsIso]

\* a createAlert that reopens the sensor's last closed alert when there is one
ReopenOrCreateAlert(rows, seq, triggerId, d, s, tsIso, value, min, max) ==
    LET closed == {a \in rows : a.triggerId = triggerId /\ ~IsOpen(a)}
    IN  IF closed = {}
        THEN insertAlert(rows, seq, triggerId, d, s, tsIso,
                         buildReason(s, value, min, max), OobContext(tsIso, value, min, max))
        ELSE LET a == CHOOSE a \in closed : \A b \in closed : b.id <= a.id
             IN  [rows |-> (rows \ {a}) \cup
                            {[a EXCEPT !.endTs = Null,
                                       !.context = OobContext(tsIso, value, min, max)]},
                  seq |-> seq, threw |-> FALSE]

\* a createAlert that swallows the rejection of its insert
createAlertQuiet(rows, seq, triggerId, d, s, tsIso, value, min, max) ==
    [insertAlert(rows, seq, triggerId, d, s, tsIso,
                 buildReason(s, value, min, max), OobContext(tsIso, value, min, max))
     EXCEPT !.threw = FALSE]

createAlert(rows, seq, triggerId, d, s, tsIso, value, min, max) ==
    insertAlert(rows, seq, triggerId, d, s, tsIso,
                buildReason(s, value, min, max), OobContext(tsIso, value, min, max))

\* a touch that keeps the later of the stored and the new time
touchAlertKeepLatest(rows, alertId, tsIso, value, min, max) ==
    LET hit == {a \in rows : a.id = alertId}
        last == IF hit = {} THEN tsIso
                ELSE LET a == CHOOSE a \in hit : TRUE
                     IN  IF a.context.lastOutOfBoundsTs > tsIso
                         THEN a.context.lastOutOfBoundsTs ELSE tsIso
    IN  updateAlertContext(rows, alertId, OobContext(last, value, min, max))

touchAlertOutOfBounds(rows, alertId, tsIso, value, min, max) ==
    updateAlertContext(rows, alertId, OobContext(tsIso, value, min, max))

\* the comparison of maybeCloseAlert
CloseImmediately(alert, measurementTs) == measurementTs >= getLastOobTs(alert)

CloseDue(alert, measurementTs) ==
    measurementTs >= addMinutes(getLastOobTs(alert), 10)

\* a close that removes the row instead of setting end_ts
maybeCloseAlertDeleting(rows, alert, measurementTsIso) ==
    IF CloseDue(alert, measurementTsIso)
    THEN [rows |-> {a \in rows : a.id # alert.id}, threw |-> FALSE]
    ELSE [rows |-> rows, threw |-> FALSE]

maybeCloseAlert(rows, alert, measurementTsIso) ==
    IF CloseDue(alert, measurementTsIso)
    THEN closeAlert(rows, alert.id, measurementTsIso)
    ELSE [rows |-> rows, threw |-> FALSE]

\* outOfBounds with the bounds themselves counted as violations
outOfBoundsInclusive(trigger, value) ==
    \/ ~IsNull(trigger.minValue) /\ value <= Get(trigger.minValue)
    \/ ~IsNull(trigger.maxValue) /\ value >= Get(trigger.maxValue)

outOfBounds(trigger, value) ==
    \/ ~IsNull(trigger.minValue) /\ value < Get(trigger.minValue)
    \/ ~IsNull(trigger.maxValue) /\ value > Get(trigger.maxValue)

\* lines 191-231 of alert(): what the invocation writes, given the parsed
\* message, the trigger it loaded and the open alert it read
AlertWrite(rows, seq, msg, trigger, open) ==
    IF outOfBounds(trigger, msg.value)
    THEN IF IsNull(open)
         THEN createAlert(rows, seq, trigger.id, msg.deviceId, msg.sensorId,
                          msg.tsIso, msg.value, trigger.minValue, trigger.maxValue)
         ELSE [seq |-> seq] @@
              touchAlertOutOfBounds(rows, Get(open).id, msg.tsIso, msg.value,
                                    trigger.minValue, trigger.maxValue)
    ELSE IF ~IsNull(open)
         THEN [seq |-> seq] @@ maybeCloseAlert(rows, Get(open), msg.tsIso)
         ELSE [rows |-> rows, seq |-> seq, threw |-> FALSE]

\* a whole invocation of alert() running alone against the tables
AlertRun(trigs, rows, seq, m) ==
    LET p == parseMessage(m)
    IN  IF parseMessageThrows(m) THEN [rows |-> rows, seq |-> seq, threw |-> TRUE]
        ELSE IF IsNull(p) THEN [rows |-> rows, seq |-> seq, threw |-> FALSE]
        ELSE LET msg == Get(p)
                 t == getEnabledTrigger(trigs, msg.deviceId, msg.sensorId)
             IN  IF IsNull(t) THEN [rows |-> rows, seq |-> seq, threw |-> FALSE]
                 ELSE AlertWrite(rows, seq, msg, Get(t),
                                 getOpenAlert(rows, Get(t).id))

----------------------------------------------------------------------------
(* Evaluator invocations, one at a time *)

Scenario ==
    << NumericMsg("cpu-temp", 0, 72), NumericMsg("cpu-temp", 5 * Minute, 75),
       NumericMsg("cpu-temp", 8 * Minute, 60), NumericMsg("cpu-temp", 16 * Minute, 60) >>

Ids(rows) == {a.id : a \in rows}

ScenOff == [pos |-> 0, base |-> {}, id |-> 0]

\* the monitor after item m took the table from rows to rows2
ScenNext(sc, m, rows, rows2) ==
    LET fresh == Ids(rows2) \ Ids(rows)
        first == [pos |-> 1, base |-> Ids(rows),
                  id |-> IF fresh = {} THEN 0 ELSE CHOOSE i \in fresh : TRUE]
    IN  IF sc.pos \in 1..3 /\ m = Scenario[sc.pos + 1]
        THEN [sc EXCEPT !.pos = sc.pos + 1]
        ELSE IF m = Scenario[1] /\ OpenAlerts(rows, Device, "cpu-temp") = {}
        THEN first
        ELSE ScenOff

IdleEv == [pc |-> "idle", msg |-> Null, trigger |-> Null, open |-> Null]

InitAlert ==
    /\ triggers = TriggerRows
    /\ alerts = {}
    /\ alertSeq = 0
    /\ ev = [p \in 1..NumEvaluators |-> IdleEv]
    /\ scen = ScenOff
    /\ runs = 0

\* everything deployed, nothing delivered yet
InitPipeline ==
    /\ InitAlert /\ ParseOff /\ InitIngest /\ InitQueues /\ InitWriter /\ InitBlob
    /\ NormalizeOff /\ InitAlertLog /\ InitHttp /\ InitEdge

\* alert(queueItem) from entry to return or throw, nothing else running
AlertInvoke(m) ==
    LET r == AlertRun(triggers, alerts, alertSeq, m)
    IN  /\ r.seq <= MaxAlertId
        /\ alerts' = r.rows
        /\ alertSeq' = r.seq
        /\ scen' = ScenNext(scen, m, alerts, r.rows)
        /\ runs' = 1 - runs
        /\ UNCHANGED <<triggers, ev, nonAlertVars>>

NextAlertSeq == \E m \in AlertMsgs : AlertInvoke(m)

SpecAlertSeq == InitPipeline /\ [][NextAlertSeq]_vars

----------------------------------------------------------------------------
(* Evaluator invocations running concurrently: one step per query *)

\* lines 157-189: parse the item and load the trigger
EvStart(p, m) ==
    /\ ev[p].pc = "idle"
    /\ LET parsed == parseMessage(m)
           t == IF IsNull(parsed) THEN Null
                ELSE getEnabledTrigger(triggers, Get(parsed).deviceId, Get(parsed).sensorId)
       IN  ev' = [ev EXCEPT ![p] =
                    IF parseMessageThrows(m) \/ IsNull(parsed) \/ IsNull(t) THEN IdleEv
                    ELSE [pc |-> "getOpenAlert", msg |-> parsed, trigger |-> t,
                          open |-> Null]]
    /\ UNCHANGED <<triggers, alerts, alertSeq, scen, runs, nonAlertVars>>

\* line 209
EvGetOpenAlert(p) ==
    /\ ev[p].pc = "getOpenAlert"
    /\ ev' = [ev EXCEPT ![p].pc = "write",
                        ![p].open = getOpenAlert(alerts, Get(ev[p].trigger).id)]
    /\ UNCHANGED <<triggers, alerts, alertSeq, scen, runs, nonAlertVars>>

\* lines 211-231: the insert or update; a rejected statement throws and the
\* invocation ends (its queue item is delivered again later)
EvWrite(p) ==
    /\ ev[p].pc = "write"
    /\ LET r == AlertWrite(alerts, alertSeq, Get(ev[p].msg), Get(ev[p].trigger), ev[p].open)
       IN  /\ r.seq <= MaxRaceAlertId
           /\ alerts' = r.rows
           /\ alertSeq' = r.seq
    /\ ev' = [ev EXCEPT ![p] = IdleEv]
    /\ runs' = 1 - runs
    /\ UNCHANGED <<triggers, scen, nonAlertVars>>

NextAlert ==
    \E p \in 1..NumEvaluators :
        \/ \E m \in RaceMsgs \cup IgnoredMsgs : EvStart(p, m)
        \/ EvGetOpenAlert(p)
        \/ EvWrite(p)

SpecAlert == InitPipeline /\ [][NextAlert]_vars

----------------------------------------------------------------------------
(* Properties of the alert evaluator *)

\* C1: in every reachable state, whatever the interleaving of evaluator
\* invocations, a (deviceId, sensorId) has at most one alert with endTs null
C1_OpenAlertUniqueness ==
    \A s \in Sensors : Cardinality(OpenAlerts(alerts, Device, s)) <= 1

\* an alert is open and an insert has been rejected (its id was consumed)
C1_Witness ==
    /\ \E s \in Sensors : OpenAlerts(alerts, Device, s) # {}
    /\ alertSeq > Cardinality(alerts)

\* the trigger and the open alert an item m is evaluated against
TriggerOf(m) ==
    LET p == parseMessage(m)
    IN  IF IsNull(p) THEN Null
        ELSE getEnabledTrigger(triggers, Get(p).deviceId, Get(p).sensorId)

\* C2: an in-bounds measurement at ts processed against an open alert whose
\* last out-of-bounds time is t1 closes it (endTs := ts) iff
\* ts >= t1 + 10 minutes, and otherwise leaves the table as it is
C2_HysteresisCloseRule ==
    [][\A m \in NumericMsgs :
        LET t == TriggerOf(m)
            p == Get(parseMessage(m))
            open == getOpenAlert(alerts, Get(t).id)
        IN  (AlertInvoke(m) /\ ~IsNull(t) /\ ~outOfBounds(Get(t), p.value)
                /\ ~IsNull(open))
            => LET a == Get(open)
               IN  IF p.tsIso >= a.context.lastOutOfBoundsTs + 10 * Minute
                   THEN alerts' = (alerts \ {a}) \cup {[a EXCEPT !.endTs = Some(p.tsIso)]}
                   ELSE alerts' = alerts]_vars

\* C3: from no open alert, (T,72), (T+5m,75), (T+8m,60), (T+16m,60) processed
\* in this order give one new alert with startTs = T; then the same alert with
\* lastOutOfBoundsTs = T+5m; then the alert still open; then the alert closed
\* with endTs = T+16m
C3_EndToEndScenario ==
    scen.pos >= 1 =>
        /\ scen.id \notin scen.base
        /\ Ids(alerts) = scen.base \cup {scen.id}
        /\ Cardinality(alerts) = Cardinality(scen.base) + 1
        /\ \E a \in alerts :
              /\ a.id = scen.id
              /\ a.deviceId = Device /\ a.sensorId = "cpu-temp"
              /\ a.startTs = 0
              /\ CASE scen.pos = 1 ->
                        IsOpen(a) /\ a.context.lastOutOfBoundsTs = 0
                   [] scen.pos = 2 ->
                        IsOpen(a) /\ a.context.lastOutOfBoundsTs = 5 * Minute
                   [] scen.pos = 3 ->
                        IsOpen(a) /\ a.context.lastOutOfBoundsTs = 5 * Minute
                   [] scen.pos = 4 ->
                        a.endTs = Some(16 * Minute)
              /\ OpenAlerts(alerts, Device, "cpu-temp") = IF scen.pos < 4 THEN {a} ELSE {}

\* the scenario has run to its end, beside an alert that existed before it
C3_Witness == scen.pos = 4 /\ scen.base # {}

\* C4: with a closed alert and no open one for the sensor, an out-of-bounds
\* measurement adds a row with a new id and endTs null, and leaves every
\* other row, the closed one included, as it was
C4_ReopenCreatesNewRow ==
    [][\A m \in NumericMsgs :
        LET t == TriggerOf(m)
            p == Get(parseMessage(m))
        IN  (/\ \E c \in alerts : c.deviceId = p.deviceId /\ c.sensorId = p.sensorId
             /\ OpenAlerts(alerts, p.deviceId, p.sensorId) = {}
             /\ ~IsNull(t)
             /\ outOfBounds(Get(t), p.value)
             /\ AlertInvoke(m))
            => \E a \in alerts' :
                 /\ a.id \notin Ids(alerts)
                 /\ a.deviceId = p.deviceId /\ a.sensorId = p.sensorId
                 /\ IsOpen(a)
                 /\ a.startTs = p.tsIso
                 /\ alerts' = alerts \cup {a}]_vars

\* a sensor has a closed alert and a later, open one
C4_Witness ==
    \E c \in alerts : \E a \in alerts :
        /\ c.sensorId = a.sensorId
        /\ ~IsOpen(c) /\ IsOpen(a)
        /\ a.id > c.id

----------------------------------------------------------------------------
(* Telemetry payloads: what a message body parses to *)

\* a JSON object with the fields of a TelemetryMessage
Msg(s, t, q, vt, v) ==
    [json |-> "object", schemaVersion |-> 1, deviceId |-> Device, sensorId |-> s,
     ts |-> t, seq |-> q, type |-> "temperature", valueType |-> vt, value |-> v]

M1 == Msg("cpu-temp", 0, 0, "number", JsNum(72))
M2 == Msg("cpu-temp", 5 * Minute, 1, "number", JsNum(75))
MBool == Msg("door", 0, 0, "boolean", JsBool(TRUE))

\* objects that violate the schema, and a JSON value that is no object
BadVersion == [M1 EXCEPT !.schemaVersion = 2]
BadSeq == [M1 EXCEPT !.seq = 0 - 1]
BadValue == [M1 EXCEPT !.value = JsBool(TRUE)]
NotAnObject == [M1 EXCEPT !.json = "number"]

ValueTypes == {"number", "boolean", "string", "enum"}

\* TelemetrySchema of shared/eventhub/telemetry.ts (packages/common schema.ts)
TelemetrySchemaOk(p) ==
    /\ p.json = "object"
    /\ p.schemaVersion = 1
    /\ p.seq >= 0
    /\ p.valueType \in ValueTypes
    /\ CASE p.valueType = "number" -> p.value.type = "number"
         [] p.valueType = "boolean" -> p.value.type = "boolean"
         [] OTHER -> p.value.type = "string"

----------------------------------------------------------------------------
(* Event Hub events (shared/iothub/event.ts) *)

\* An event: its JavaScript shape; for a wrapper object the shape of its
\* `body` property; for text whether it is valid JSON; and the payload it is
\* or parses to.
Event(shape, body, json, val) ==
    [shape |-> shape, body |-> body, json |-> json, val |-> val, elems |-> <<>>]

EvNull == Event("null", "none", FALSE, NotAnObject)
EvNumber == Event("number", "none", FALSE, NotAnObject)
EvString(p) == Event("string", "none", TRUE, p)
EvGarbage == Event("string", "none", FALSE, NotAnObject)
EvBuffer(p) == Event("buffer", "none", TRUE, p)
EvBytes(p) == Event("uint8array", "none", TRUE, p)
EvObject(p) == Event("object", "none", FALSE, p)
EvWrapString(p) == Event("object", "string", TRUE, p)
EvWrapGarbage == Event("object", "string", FALSE, NotAnObject)
EvWrapObject(p) == Event("object", "object", FALSE, p)
EvWrapNull == Event("object", "null", FALSE, NotAnObject)
EvWrapUndefined == Event("object", "undefined", FALSE, NotAnObject)
EvWrapBuffer == Event("object", "buffer", FALSE, NotAnObject)

\* a JSON array, and the values that carry one: a string holding its text, the
\* decoded array itself, and the { messageText } wrappers of a queue binding
ArrayValue == [M1 EXCEPT !.json = "array"]
EvStringArray(ps) == [EvString(ArrayValue) EXCEPT !.elems = ps]
EvArray(ps) == [Event("array", "none", FALSE, ArrayValue) EXCEPT !.elems = ps]
EvMessageText(p) == Event("object", "messageText", TRUE, p)
EvMessageTextArray(ps) == [EvMessageText(ArrayValue) EXCEPT !.elems = ps]
EvMessageTextGarbage == Event("object", "messageText", FALSE, NotAnObject)
EvMessageTextNumber == Event("object", "messageTextNumber", FALSE, NotAnObject)

\* a value handed from step to step: typeof, and for a string whether it parses
Body(t, json, val) == [t |-> t, json |-> json, val |-> val]
Undefined == Body("undefined", FALSE, NotAnObject)

normalizeEventHubBatch(event) ==
    IF event.isArray THEN event.items ELSE <<event.items[1]>>

\* an extractEventHubBody without case 4: a wrapper is taken for the payload
ExtractWithoutWrapper(e) ==
    IF e.shape = "null" THEN Undefined
    ELSE IF e.shape \in {"string", "buffer", "uint8array"} THEN Body("string", e.json, e.val)
    ELSE IF e.shape = "object" THEN Body("object", FALSE, NotAnObject)
    ELSE Undefined

extractEventHubBody(e) ==
    IF e.shape = "null" THEN Undefined
    ELSE IF e.shape = "string" THEN Body("string", e.json, e.val)
    ELSE IF e.shape = "buffer" THEN Body("string", e.json, e.val)
    ELSE IF e.shape = "uint8array" THEN Body("string", e.json, e.val)
    ELSE IF e.shape = "array" THEN Body("object", FALSE, ArrayValue)
    ELSE IF e.shape = "object"
         THEN IF e.body = "none" THEN Body("object", FALSE, e.val)
              ELSE IF e.body \in {"messageText", "messageTextNumber"}
                   THEN Body("object", FALSE, NotAnObject)
              ELSE IF e.body = "undefined" THEN Undefined
              ELSE IF e.body = "string" THEN Body("string", e.json, e.val)
              ELSE IF e.body = "object" THEN Body("object", FALSE, e.val)
              ELSE Body(e.body, FALSE, NotAnObject)
    ELSE Undefined

\* undefined, or the parsed value
parseJsonSafe(b) ==
    IF b.t \in {"undefined", "null"} THEN Undefined
    ELSE IF b.t = "string"
         THEN IF b.json THEN Body("parsed", FALSE, b.val) ELSE Undefined
    ELSE Body("parsed", FALSE, b.val)

----------------------------------------------------------------------------
(* parseTelemetryBatch (shared/eventhub/parseTelemetry.ts) *)

BadItem(e, msg) == [event |-> e, issue |-> msg]

\* an iteration that takes every parsed body for telemetry
ParseOneSchemaless(e, ok, bad) ==
    LET body == extractEventHubBody(e)
        parsed == parseJsonSafe(body)
    IN  IF body.t = "undefined"
        THEN [ok |-> ok, bad |-> Append(bad, BadItem(e, "Missing event body"))]
        ELSE IF parsed.t = "undefined"
        THEN [ok |-> ok, bad |-> Append(bad, BadItem(e, "Body is not valid JSON"))]
        ELSE [ok |-> Append(ok, parsed.val), bad |-> bad]

\* one iteration of the for loop (lines 73-103) on event e
ParseOne(e, ok, bad) ==
    LET body == extractEventHubBody(e)
        parsed == parseJsonSafe(body)
    IN  IF body.t = "undefined"
        THEN [ok |-> ok, bad |-> Append(bad, BadItem(e, "Missing event body"))]
        ELSE IF parsed.t = "undefined"
        THEN [ok |-> ok, bad |-> Append(bad, BadItem(e, "Body is not valid JSON"))]
        ELSE IF TelemetrySchemaOk(parsed.val)
        THEN [ok |-> Append(ok, parsed.val), bad |-> bad]
        ELSE [ok |-> ok, bad |-> Append(bad, BadItem(e, "schema"))]

RECURSIVE ParseFrom(_, _, _, _)
ParseFrom(batch, i, ok, bad) ==
    IF i > Len(batch) THEN [ok |-> ok, bad |-> bad]
    ELSE LET r == ParseOne(batch[i], ok, bad)
         IN  ParseFrom(batch, i + 1, r.ok, r.bad)

parseTelemetryBatch(events) == ParseFrom(normalizeEventHubBatch(events), 1, <<>>, <<>>)

\* events a batch is made of
EventKinds ==
    {EvNull, EvNumber, EvGarbage, EvWrapGarbage, EvWrapNull, EvWrapUndefined,
     EvWrapBuffer,
     EvString(M1), EvString(BadVersion), EvString(NotAnObject), EvBuffer(M2),
     EvObject(M2), EvObject(BadSeq), EvObject(BadValue),
     EvWrapString(M1), EvWrapObject(M2), EvWrapObject(BadVersion)}

RECURSIVE SeqsUpTo(_, _)
SeqsUpTo(S, n) ==
    IF n = 0 THEN {<<>>}
    ELSE LET shorter == SeqsUpTo(S, n - 1)
         IN  shorter \cup {Append(q, x) : q \in shorter, x \in S}

ParseInputs ==
    {[isArray |-> TRUE, items |-> q] : q \in SeqsUpTo(EventKinds, MaxBatch)}
    \cup {[isArray |-> FALSE, items |-> <<e>>] : e \in EventKinds}

InitParse ==
    /\ pIn \in ParseInputs
    /\ pI = 1
    /\ pOk = <<>>
    /\ pBad = <<>>

ParseIter ==
    /\ pI <= Len(normalizeEventHubBatch(pIn))
    /\ LET r == ParseOne(normalizeEventHubBatch(pIn)[pI], pOk, pBad)
       IN  pOk' = r.ok /\ pBad' = r.bad
    /\ pI' = pI + 1
    /\ UNCHANGED <<pIn, nonParseVars>>

ParseReturned == pI > Len(normalizeEventHubBatch(pIn))

NextParse == ParseIter

InitParseBatch ==
    /\ InitParse
    /\ InitAlert /\ InitIngest /\ InitQueues /\ InitWriter /\ InitBlob
    /\ NormalizeOff /\ InitAlertLog /\ InitHttp /\ InitEdge

SpecParse == InitParseBatch /\ [][NextParse]_vars

----------------------------------------------------------------------------
(* Partial-batch tolerance *)

TextShapes == {"string", "buffer", "uint8array"}

\* an item is valid when it carries, as JSON text or as an object, directly or
\* in a wrapper's body, a payload that conforms to the telemetry schema
ItemValid(e) ==
    /\ TelemetrySchemaOk(e.val)
    /\ \/ e.shape \in TextShapes /\ e.json
       \/ e.shape = "object" /\ e.body = "none"
       \/ e.shape = "object" /\ e.body = "string" /\ e.json
       \/ e.shape = "object" /\ e.body = "object"

ValidPayloads(items) == [k \in 1..Len(SelectSeq(items, ItemValid)) |->
                            SelectSeq(items, ItemValid)[k].val]

NumValid(items) == Cardinality({k \in 1..Len(items) : ItemValid(items[k])})
NumInvalid(items) == Cardinality({k \in 1..Len(items) : ~ItemValid(items[k])})

Consumed == SubSeq(normalizeEventHubBatch(pIn), 1, pI - 1)

\* C6: after every iteration, and so when parseTelemetryBatch returns, ok
\* holds exactly the K valid items consumed so far, in input order, and bad
\* holds the J invalid ones (missing body, non-JSON body, schema violation);
\* the two lengths add up to the number of items of the normalized batch.
C6_PartialBatchTolerance ==
    /\ Len(pOk) = NumValid(Consumed)
    /\ Len(pBad) = NumInvalid(Consumed)
    /\ pOk = ValidPayloads(Consumed)
    /\ ParseReturned =>
         /\ Len(pOk) + Len(pBad) = Len(normalizeEventHubBatch(pIn))
         /\ [ok |-> pOk, bad |-> pBad] = parseTelemetryBatch(pIn)

\* a returned three-item batch with valid items around an invalid one
C6_Witness ==
    /\ ParseReturned
    /\ Len(pIn.items) = 3
    /\ ItemValid(pIn.items[1]) /\ ~ItemValid(pIn.items[2]) /\ ItemValid(pIn.items[3])
    /\ pIn.items[1].val # pIn.items[3].val
    /\ Len(pOk) = 2 /\ Len(pBad) = 1

----------------------------------------------------------------------------
(* Dispatcher (functions/ingest.ts) *)

\* JSON.stringify(payload): a text that parses back to the payload
JSONstringify(payload) == EvString(payload)

\* the sendMessage call sendJson makes
sendJson(queue, payload) == [queue |-> queue, body |-> JSONstringify(payload)]

\* a fan-out that leaves the alert queue out
EnqueueWithoutAlerts(message) ==
    {sendJson("db", message), sendJson("blob", message)}

\* the calls under Promise.all
enqueueToAllQueues(message) ==
    {sendJson("db", message), sendJson("alerts", message), sendJson("blob", message)}

\* a combinator that waits for every promise and never rejects
PromiseAllSettled(states) ==
    IF "inflight" \in states THEN "pending" ELSE "resolved"

\* Promise.all over promises in the given states
PromiseAll(states) ==
    IF "fail" \in states THEN "rejected"
    ELSE IF "inflight" \in states THEN "pending"
    ELSE "resolved"

DefaultConcurrency == 32

\* Number.parseInt(text, 10); Null for NaN
ParseInt(text) ==
    CASE text = "1" -> Some(1)
      [] text = "2" -> Some(2)
      [] text = "0" -> Some(0)
      [] text = "-1" -> Some(0 - 1)
      [] text = "32" -> Some(DefaultConcurrency)
      [] OTHER -> Null

EnvValues == {"unset", "1", "2", "0", "-1", "many"}

\* a dispatcher that ignores the setting
ConcurrencyIgnored(env) == DefaultConcurrency

\* line 63: Number.parseInt(env ?? "32", 10) || 32
Concurrency(env) ==
    LET n == ParseInt(IF env = "unset" THEN "32" ELSE env)
    IN  IF IsNull(n) \/ n = Some(0) THEN DefaultConcurrency ELSE Get(n)

Min(a, b) == IF a < b THEN a ELSE b

NotSent == [q \in Queues |-> "none"]

\* a dispatcher that remembers what the earlier delivery put on a queue and
\* leaves those sends out
AlreadyQueued(k, q) ==
    IF iPc = "raised" THEN k \in DOMAIN iSend /\ iSend[k][q] = "ok"
    ELSE iPast # <<>> /\ iPast[Len(iPast)][k][q] = "ok"

StartMapperOnce(send, ok, k) ==
    [send EXCEPT ![k] = [q \in Queues |->
        IF AlreadyQueued(k, q) THEN "none"
        ELSE IF \E c \in enqueueToAllQueues(ok[k]) : c.queue = q THEN "inflight"
        ELSE "none"]]

\* the mapper of element k runs up to its await: all sends are issued
StartMapper(send, ok, k) ==
    [send EXCEPT ![k] = [q \in Queues |->
        IF \E c \in enqueueToAllQueues(ok[k]) : c.queue = q THEN "inflight" ELSE "none"]]

\* state of the promise of the mapper of element k
MapperPromise(send, ok, k) ==
    PromiseAll({send[k][c.queue] : c \in enqueueToAllQueues(ok[k])})

\* an ingest that goes on to pMap with an empty ok
ContinueWhenEmpty(ok) == FALSE

\* line 59: if (ok.length === 0) return;
NothingToSend(ok) == Len(ok) = 0

\* ingest from its entry to its first await (or to its end)
IngestBegin(input, env) ==
    LET ok == parseTelemetryBatch(input).ok
        n == Len(ok)
        c == Concurrency(env)
        first == Min(c, n)
        RECURSIVE StartAll(_, _)
        StartAll(send, k) == IF k > first THEN send
                             ELSE StartAll(StartMapper(send, ok, k), k + 1)
    IN  /\ iIn' = input
        /\ iEnv' = env
        /\ iOk' = ok
        /\ iDeliveries' = iDeliveries + 1
        /\ IF NothingToSend(ok)
           THEN iPc' = "returned" /\ iNext' = 1 /\ iSend' = <<>>
           ELSE IF c < 1
           THEN \* pMap rejects a concurrency below 1 with a TypeError
                iPc' = "raised" /\ iNext' = 1 /\ iSend' = [k \in 1..n |-> NotSent]
           ELSE IF n = 0
           THEN \* pMap of an empty list resolves at once
                iPc' = "returned" /\ iNext' = 1 /\ iSend' = <<>>
           ELSE /\ iPc' = "running"
                /\ iNext' = first + 1
                /\ iSend' = StartAll([k \in 1..n |-> NotSent], 1)

\* pMap and ingest after the send of element k to queue q has settled
AfterSettle(send, k) ==
    LET n == Len(iOk)
        p == MapperPromise(send, iOk, k)
    IN  IF iPc # "running" THEN [pc |-> iPc, next |-> iNext, send |-> send]
        ELSE IF p = "rejected" THEN [pc |-> "raised", next |-> iNext, send |-> send]
        ELSE IF p = "pending" THEN [pc |-> iPc, next |-> iNext, send |-> send]
        ELSE IF iNext <= n
        THEN [pc |-> iPc, next |-> iNext + 1, send |-> StartMapper(send, iOk, iNext)]
        ELSE IF \A j \in 1..n : MapperPromise(send, iOk, j) = "resolved"
        THEN [pc |-> "returned", next |-> iNext, send |-> send]
        ELSE [pc |-> iPc, next |-> iNext, send |-> send]

TheSend(k, q) == CHOOSE c \in enqueueToAllQueues(iOk[k]) : c.queue = q

\* the queue service accepts a message
SendOk(k, q) ==
    /\ iSend[k][q] = "inflight"
    /\ queues' = [queues EXCEPT ![q] = @ (+) SetToBag({TheSend(k, q).body})]
    /\ LET r == AfterSettle([iSend EXCEPT ![k][q] = "ok"], k)
       IN  iPc' = r.pc /\ iNext' = r.next /\ iSend' = r.send
    /\ UNCHANGED <<iIn, iEnv, iOk, iDeliveries, iPast>>

\* sendMessage rejects; the message is not in the queue
SendFail(k, q) ==
    /\ iSend[k][q] = "inflight"
    /\ LET r == AfterSettle([iSend EXCEPT ![k][q] = "fail"], k)
       IN  iPc' = r.pc /\ iNext' = r.next /\ iSend' = r.send
    /\ UNCHANGED <<iIn, iEnv, iOk, iDeliveries, iPast, queues>>

\* batches the Event Hub trigger delivers
IngestInputs ==
    {[isArray |-> TRUE, items |-> q] : q \in
        {<<>>,
         <<EvGarbage>>,
         <<EvGarbage, EvObject(BadVersion)>>,
         <<EvObject(BadVersion), EvString(M2)>>,
         <<EvString(M1)>>,
         <<EvString(M1), EvWrapNull, EvObject(M2)>>,
         <<EvBuffer(M2), EvString(M1), EvWrapObject(MBool)>>,
         <<EvString(M1), EvObject(M1)>>}}
    \cup {[isArray |-> FALSE, items |-> <<EvObject(MBool)>>]}

IngestStart(input, env) ==
    /\ iPc = "idle"
    /\ IngestBegin(input, env)
    /\ UNCHANGED <<iPast, queues>>

nonIngestVars == <<alertVars, parseVars, writerVars, blobVars, normalizeVars, alertLog, httpLog, edgeVars>>

NextIngest ==
    \/ \E input \in IngestInputs, env \in EnvValues :
          IngestStart(input, env) /\ UNCHANGED nonIngestVars
    \/ \E k \in DOMAIN iSend, q \in Queues : SendOk(k, q) /\ UNCHANGED nonIngestVars
    \/ \E k \in DOMAIN iSend, q \in Queues : SendFail(k, q) /\ UNCHANGED nonIngestVars

SpecIngest ==
    InitPipeline /\ [][NextIngest]_vars

----------------------------------------------------------------------------
(* Dispatcher contracts *)

FailedSends == {<<k, q>> \in (DOMAIN iSend) \X Queues : iSend[k][q] = "fail"}

\* C7: once a queue send of the invocation has failed, whatever the message
\* and whichever of the three queues, the invocation has ended by raising;
\* it has not returned and does not go on running.
C7_FailureEscalation ==
    FailedSends # {} => iPc = "raised"

\* a failed send next to sends of other messages that have succeeded
C7_Witness ==
    /\ iPc = "raised"
    /\ \E f \in FailedSends :
         \E k \in DOMAIN iSend : k # f[1] /\ \A q \in Queues : iSend[k][q] = "ok"

RECURSIVE BagOfSeq(_)
BagOfSeq(q) == IF q = <<>> THEN EmptyBag
               ELSE SetToBag({Head(q)}) (+) BagOfSeq(Tail(q))

Bodies == [k \in DOMAIN iOk |-> JSONstringify(iOk[k])]

\* C8: when ingest has returned, each of the three queues has received, for
\* every element of ok, exactly one message, whose text is the serialized
\* element: the same text on all three queues.
C8_SuccessPostcondition ==
    iPc = "returned" =>
        /\ \A k \in DOMAIN iOk : \A q \in Queues : iSend[k][q] = "ok"
        /\ \A q \in Queues : queues[q] = BagOfSeq(Bodies)

\* a returned invocation that has dispatched three messages one at a time
C8_Witness ==
    /\ iPc = "returned"
    /\ Len(iOk) = 3
    /\ Concurrency(iEnv) = 1
    /\ \A q \in Queues : BagCardinality(queues[q]) = 3

----------------------------------------------------------------------------
(* Table telemetry (install script) *)

\* messages only the writer's own schema lets through
MNaN == Msg("cpu-temp", 0, 2, "number", JsStr("abc"))
MText21 == Msg("cpu-temp", 0, 3, "number", JsStr("21"))

telemetry_pk(r) == <<r.device_id, r.sensor_id, r.ts, r.seq>>

telemetry_value_type_chk(r) == r.value_type \in {"number", "boolean", "enum", "string"}

telemetry_value_columns_chk(r) ==
    \/ r.value_type = "number" /\ ~IsNull(r.value_number)
         /\ IsNull(r.value_boolean) /\ IsNull(r.value_text)
    \/ r.value_type = "boolean" /\ ~IsNull(r.value_boolean)
         /\ IsNull(r.value_number) /\ IsNull(r.value_text)
    \/ r.value_type \in {"enum", "string"} /\ ~IsNull(r.value_text)
         /\ IsNull(r.value_number) /\ IsNull(r.value_boolean)

----------------------------------------------------------------------------
(* Time-Series Writer (functions/timescale-writer.ts) *)

\* the schema of lines 16-27
WriterSchemaOk(p) ==
    /\ p.json = "object"
    /\ p.schemaVersion = 1
    /\ p.seq >= 0
    /\ p.valueType \in ValueTypes
    /\ p.value.type \in {"number", "boolean", "string"}

normalizeBatch(event) ==
    IF event.isArray THEN event.items ELSE <<event.items[1]>>

\* the value the schema is applied to
parseBodyToObject(e) ==
    IF e.shape = "null" THEN NotAnObject
    ELSE IF e.shape = "array" THEN ArrayValue
    ELSE IF e.shape = "object"
         THEN IF e.body = "none" THEN e.val ELSE NotAnObject
    ELSE IF e.shape \in {"string", "buffer", "uint8array"}
         THEN IF e.json THEN e.val ELSE NotAnObject
    ELSE NotAnObject

ToLowerCase(text) == IF text = "TRUE" THEN "true" ELSE text

mapTelemetryToDb(msg) ==
    LET asNumber == IF msg.valueType = "number" THEN msg.value.num ELSE Null
        valueNumber == asNumber
        valueBoolean ==
            IF msg.valueType = "boolean"
            THEN Some(IF msg.value.type = "boolean" THEN msg.value.text = "true"
                      ELSE ToLowerCase(msg.value.text) = "true")
            ELSE Null
        valueText ==
            IF msg.valueType = "number"
            THEN IF IsNull(asNumber) THEN Some(msg.value.text) ELSE Null
            ELSE IF msg.valueType = "boolean" THEN Null
            ELSE Some(msg.value.text)
    IN  [device_id |-> msg.deviceId, sensor_id |-> msg.sensorId, ts |-> msg.ts,
         seq |-> msg.seq, type |-> msg.type, value_type |-> msg.valueType,
         value_number |-> valueNumber, value_boolean |-> valueBoolean,
         value_text |-> valueText]

\* the row as stored: ingest_time DEFAULT now(), a clock that only advances
Stored(row, now) ==
    [device_id |-> row.device_id, sensor_id |-> row.sensor_id, ts |-> row.ts,
     seq |-> row.seq, type |-> row.type, value_type |-> row.value_type,
     value_number |-> row.value_number, value_boolean |-> row.value_boolean,
     value_text |-> row.value_text, ingest_time |-> now]

\* a table without its primary key
NoPkConflict(rows, row) == FALSE

\* the row collides with a stored row on telemetry_pk
PkConflict(rows, row) == \E r \in rows : telemetry_pk(r) = telemetry_pk(row)

\* INSERT ... ON CONFLICT DO NOTHING; dbUp: the server answers
insertTelemetryRow(rows, row, dbUp) ==
    IF ~dbUp THEN [rows |-> rows, error |-> "connection error"]
    ELSE IF ~(telemetry_value_type_chk(row) /\ telemetry_value_columns_chk(row))
    THEN [rows |-> rows, error |-> "check violation"]
    ELSE IF PkConflict(rows, row)
    THEN [rows |-> rows, error |-> "none"]
    ELSE [rows |-> rows \cup {Stored(row, Cardinality(rows))}, error |-> "none"]

\* runTimescaleWriter up to the loop
WriterBegin(w, event) ==
    /\ writers' = [writers EXCEPT ![w] =
           [pc |-> "loop", batch |-> normalizeBatch(event), i |-> 1,
            inserted |-> 0, failed |-> 0, log |-> <<>>]]

\* one iteration of the loop of lines 198-238
WriterItem(w, dbUp) ==
    LET me == writers[w]
        obj == parseBodyToObject(me.batch[me.i])
        r == insertTelemetryRow(telemetry, mapTelemetryToDb(obj), dbUp)
    IN  /\ me.pc = "loop"
        /\ me.i <= Len(me.batch)
        /\ IF ~WriterSchemaOk(obj)
           THEN /\ writers' = [writers EXCEPT ![w].i = @ + 1, ![w].failed = @ + 1,
                                   ![w].log = Append(@, "validation failed")]
                /\ UNCHANGED telemetry
           ELSE IF r.error # "none"
           THEN /\ writers' = [writers EXCEPT ![w].i = @ + 1, ![w].failed = @ + 1,
                                   ![w].log = Append(@, r.error)]
                /\ UNCHANGED telemetry
           ELSE /\ writers' = [writers EXCEPT ![w].i = @ + 1, ![w].inserted = @ + 1,
                                   ![w].log = Append(@, "inserted")]
                /\ telemetry' = r.rows

\* a writer that gives up at the first item it counts as failed
WriterReturnOnFailure(w) ==
    /\ writers[w].pc = "loop"
    /\ writers[w].i > Len(writers[w].batch) \/ writers[w].failed > 0
    /\ writers' = [writers EXCEPT ![w].pc = "returned"]
    /\ UNCHANGED telemetry

\* lines 240-241: the invocation returns its counters
WriterReturn(w) ==
    /\ writers[w].pc = "loop"
    /\ writers[w].i > Len(writers[w].batch)
    /\ writers' = [writers EXCEPT ![w].pc = "returned"]
    /\ UNCHANGED telemetry

\* an invocation of the handler
WriterStart(w, event) ==
    /\ writers[w].pc = "idle"
    /\ WriterBegin(w, event)
    /\ UNCHANGED telemetry

\* queue items handed to the writer
WriterInputs ==
    {[isArray |-> FALSE, items |-> <<e>>] :
        e \in {EvString(M1), EvObject(MNaN), EvStringArray(<<M1, M2>>)}}
    \cup {[isArray |-> TRUE, items |-> q] : q \in
            {<<>>,
             <<EvObject(M1), EvObject(MBool)>>,
             <<EvObject(MNaN), EvString(MText21)>>,
             <<EvGarbage, EvBuffer(M1)>>,
             <<EvObject(BadVersion), EvObject(M2)>>}}

nonWriterVars == <<alertVars, parseVars, ingestVars, queues, blobVars, normalizeVars,
                   alertLog, httpLog, edgeVars>>

NextWriter ==
    \/ \E w \in 1..NumWriters, event \in WriterInputs :
          WriterStart(w, event) /\ UNCHANGED nonWriterVars
    \/ \E w \in 1..NumWriters, dbUp \in BOOLEAN :
          WriterItem(w, dbUp) /\ UNCHANGED nonWriterVars
    \/ \E w \in 1..NumWriters : WriterReturn(w) /\ UNCHANGED nonWriterVars

SpecWriter ==
    InitPipeline /\ [][NextWriter]_vars

----------------------------------------------------------------------------
(* Time-Series Writer contracts *)

\* item j of invocation w has been run against an answering database
RanBefore(obj) ==
    \E w \in 1..NumWriters : \E j \in 1..Len(writers[w].log) :
        /\ parseBodyToObject(writers[w].batch[j]) = obj
        /\ writers[w].log[j] # "connection error"

RowsOfKey(rows, obj) ==
    {r \in rows : telemetry_pk(r) = telemetry_pk(mapTelemetryToDb(obj))}

\* C5: when the writer runs a schema-valid message that a writer invocation
\* has run before, the database answering both times, the table then holds
\* exactly one row with the message's key and the item is not counted as
\* failed.
C5_IdempotentInsert ==
    [][\A w \in 1..NumWriters :
        LET me == writers[w]
            obj == parseBodyToObject(me.batch[me.i])
        IN  (me.pc = "loop" /\ me.i <= Len(me.batch) /\ WriterSchemaOk(obj)
             /\ RanBefore(obj) /\ WriterItem(w, TRUE))
            => /\ Cardinality(RowsOfKey(telemetry', obj)) = 1
               /\ writers'[w].failed = me.failed]_vars

\* C10: an invocation that has counted a failed item does not return; it
\* ends by raising.
C10_RetryEscalation ==
    \A w \in 1..NumWriters :
        writers[w].failed > 0 => writers[w].pc # "returned"

----------------------------------------------------------------------------
(* Queue messages (shared/queue/parseQueueMessage.ts) *)

\* what a queue trigger hands to its handler for a message text: the text,
\* or the value it parses to
QueueItems(body) == {body, EvObject(body.val)}

\* the payload as a list element when it is not a telemetry object itself
AsItem(payload) ==
    IF payload.shape = "object" /\ payload.body = "none" THEN payload.val
    ELSE NotAnObject

\* a normalizer that wraps whatever JSON.parse returned, an array included
ParsedItemsNoArray(payload) ==
    IF parseJsonSafe(Body("string", payload.json, payload.val)) = Undefined THEN <<>>
    ELSE <<payload.val>>

\* Array.isArray(parsed) ? parsed : [parsed]
ParsedItems(payload) ==
    IF parseJsonSafe(Body("string", payload.json, payload.val)) = Undefined THEN <<>>
    ELSE IF payload.val.json = "array" THEN payload.elems
    ELSE <<payload.val>>

normalizeQueueMessage(payload) ==
    IF payload.shape = "null" THEN <<>>
    ELSE IF payload.shape = "string" THEN ParsedItems(payload)
    ELSE IF payload.shape \in {"object", "array"} /\ payload.body = "messageText"
         THEN ParsedItems(payload)
    ELSE IF payload.shape = "array" THEN payload.elems
    ELSE <<AsItem(payload)>>

parseQueueMessages(payload) == normalizeQueueMessage(payload)

----------------------------------------------------------------------------
(* Archive Writer (functions/blob-writer.ts) *)

Hour == 60 * Minute

\* the UTC hour the timestamp falls in
datePathParts(ts) == ts \div Hour

\* String.prototype.slice(0, 128) in sanitizePathPart
PathCut == 128

Lowercase ==
    {"a", "b", "c", "d", "e", "f", "g", "h", "i", "j", "k", "l", "m",
     "n", "o", "p", "q", "r", "s", "t", "u", "v", "w", "x", "y", "z"}
Uppercase ==
    {"A", "B", "C", "D", "E", "F", "G", "H", "I", "J", "K", "L", "M",
     "N", "O", "P", "Q", "R", "S", "T", "U", "V", "W", "X", "Y", "Z"}
Digits == {"0", "1", "2", "3", "4", "5", "6", "7", "8", "9"}

\* the class [a-zA-Z0-9._\-] and the class \s of the two regular expressions
PathSafe == Lowercase \cup Uppercase \cup Digits \cup {".", "_", "-"}
Whitespace == {" ", "\t"}

\* the characters of the device and sensor ids the model uses; the two long
\* ids are 128 times "a" followed by one more character
Chars(v) ==
    CASE v = "pi-01" -> <<"p", "i", "-", "0", "1">>
      [] v = "pi 01" -> <<"p", "i", " ", "0", "1">>
      [] v = "pi_01" -> <<"p", "i", "_", "0", "1">>
      [] v = "pi-02" -> <<"p", "i", "-", "0", "2">>
      [] v = "a128x" -> [i \in 1..128 |-> "a"] \o <<"x">>
      [] v = "a128y" -> [i \in 1..128 |-> "a"] \o <<"y">>
      [] v = "cpu-temp" -> <<"c", "p", "u", "-", "t", "e", "m", "p">>
      [] v = "cpu/temp" -> <<"c", "p", "u", "/", "t", "e", "m", "p">>
      [] v = " cpu-temp" -> <<" ", "c", "p", "u", "-", "t", "e", "m", "p">>
      [] v = "room-temp" -> <<"r", "o", "o", "m", "-", "t", "e", "m", "p">>
      [] v = "door" -> <<"d", "o", "o", "r">>
      [] v = "humidity" -> <<"h", "u", "m", "i", "d", "i", "t", "y">>
      [] v = "led" -> <<"l", "e", "d">>

\* a sanitizer that keeps the id as it is
sanitizeKeepAll(v) == v

\* trim, runs of whitespace to "_", every other character outside the safe
\* class to "-", then the first 128 characters
sanitizePathPart(v) ==
    LET inner == {i \in 1..Len(v) : v[i] \notin Whitespace}
        first == CHOOSE i \in inner : \A j \in inner : i <= j
        last == CHOOSE i \in inner : \A j \in inner : j <= i
        trimmed == IF inner = {} THEN <<>> ELSE SubSeq(v, first, last)
        marked == [i \in 1..Len(trimmed) |->
                     IF trimmed[i] \in Whitespace
                     THEN IF i > 1 /\ trimmed[i - 1] \in Whitespace THEN "" ELSE "_"
                     ELSE trimmed[i]]
        Kept(ch) == ch # ""
        spaced == SelectSeq(marked, Kept)
        safe == [i \in 1..Len(spaced) |->
                   IF spaced[i] \in PathSafe THEN spaced[i] ELSE "-"]
    IN  SubSeq(safe, 1, Min(Len(safe), PathCut))

SampleIds ==
    {"pi-01", "pi 01", "pi_01", "pi-02", "a128x", "a128y", "cpu-temp", "cpu/temp",
     " cpu-temp", "room-temp", "door", "humidity", "led"}

\* the path part of each id, computed once
PathPart == [v \in SampleIds |-> sanitizePathPart(Chars(v))]

\* lines 317-320: the key is built from the sanitized ids
PartitionKey(m) == <<datePathParts(m.ts), PathPart[m.deviceId], PathPart[m.sensorId]>>

AppendOutcomes == {"ok", "create failed", "append failed"}

RECURSIVE SumOver(_, _)
SumOver(S, f) ==
    IF S = {} THEN 0
    ELSE LET x == CHOOSE y \in S : TRUE IN f[x] + SumOver(S \ {x}, f)

\* one invocation's entry of blobLog: the fields of "blob-writer: done", the
\* blob names of its "blob-writer: append failed" lines, whether it raised
BlobDone(received, partitions, appended, failed, errors, raised) ==
    [received |-> received, partitions |-> partitions, appended |-> appended,
     failed |-> failed, errors |-> errors, raised |-> raised]

\* getContainerClient: createIfNotExists on the container, once per process
ContainerReady(ensured, containerUp) == ensured \/ containerUp

\* a mapper whose failure rejects pMap: nothing is appended unless every
\* partition's calls succeed
AppendedKeysAllOrNothing(keys, outcome) ==
    IF \A key \in keys : outcome[key] = "ok" THEN keys ELSE {}

\* the partitions whose mapper reaches appendBlock and returns from it
AppendedKeys(keys, outcome) == {key \in keys : outcome[key] = "ok"}

\* runBlobWriter on a queue item; containerUp: whether the container can be
\* created; outcome: per partition, how its two blob calls end
runBlobWriter(store, log, ensured, queueItem, containerUp, outcome) ==
    LET messages == parseQueueMessages(queueItem)
        keys == {PartitionKey(messages[k]) : k \in 1..Len(messages)}
        Batch(key) == LET InKey(m) == PartitionKey(m) = key
                      IN  SelectSeq(messages, InKey)
        Ndjson(key) == [k \in 1..Len(Batch(key)) |-> JSONstringify(Batch(key)[k])]
        Old(key) == IF key \in DOMAIN store THEN store[key] ELSE <<>>
        created == {key \in keys : outcome[key] # "create failed"}
        ok == AppendedKeys(keys, outcome)
        appended == [key \in keys |-> IF key \in ok THEN Len(Batch(key)) ELSE 0]
        failed == [key \in keys |-> IF key \in ok THEN 0 ELSE Len(Batch(key))]
    IN  IF Len(messages) = 0
        THEN [blobs |-> store, ensured |-> ensured,
              log |-> Append(log, BlobDone(0, 0, 0, 0, {}, FALSE))]
        ELSE IF ~ContainerReady(ensured, containerUp)
        THEN [blobs |-> store, ensured |-> FALSE,
              log |-> Append(log, BlobDone(Len(messages), 0, 0, 0, {}, TRUE))]
        ELSE [blobs |-> [key \in DOMAIN store \cup created |->
                            IF key \in ok THEN Old(key) \o Ndjson(key) ELSE Old(key)],
              ensured |-> TRUE,
              log |-> Append(log, BlobDone(Len(messages), Cardinality(keys),
                                           SumOver(keys, appended),
                                           SumOver(keys, failed),
                                           keys \ ok, FALSE))]

----------------------------------------------------------------------------
(* The pipeline: one Event Hub batch, its redelivery, the three consumers.
   The database answers every statement here. *)

PipelineInputs ==
    {[isArray |-> TRUE, items |-> q] : q \in
        {<<EvString(M1)>>, <<EvWrapUndefined, EvObject(M2)>>}}

\* the time-series queue is drained by one invocation at a time
PipelineWriters == {1}

Dequeue(q, body) == [queues EXCEPT ![q] = @ (-) SetToBag({body})]

\* the trigger hands the batch of a raised invocation to ingest again
EventHubRedeliver ==
    /\ iPc = "raised"
    /\ iDeliveries < MaxDeliveries
    /\ \A k \in DOMAIN iSend : \A q \in Queues : iSend[k][q] # "inflight"
    /\ IngestBegin(iIn, iEnv)
    /\ iPast' = Append(iPast, iSend)
    /\ UNCHANGED queues

\* the time-series queue hands a message to runTimescaleWriter, which never
\* raises: the message is gone
DbDeliver(w) ==
    \E body \in BagToSet(queues["db"]) : \E item \in QueueItems(body) :
        /\ writers[w].pc \in {"idle", "returned"}
        /\ WriterBegin(w, [isArray |-> FALSE, items |-> <<item>>])
        /\ queues' = Dequeue("db", body)
        /\ UNCHANGED telemetry

\* the archive queue hands a message to runBlobWriter; the container exists
BlobDeliver ==
    \E body \in BagToSet(queues["blob"]) : \E item \in QueueItems(body) :
        \E outcome \in [{PartitionKey(body.val)} -> AppendOutcomes] :
            LET r == runBlobWriter(blobs, blobLog, containerEnsured, item, TRUE, outcome)
            IN  /\ blobs' = r.blobs
                /\ blobLog' = r.log
                /\ containerEnsured' = r.ensured
                /\ queues' = Dequeue("blob", body)
                /\ UNCHANGED appenders

\* the object alert() reads its fields from
AlertItem(p) ==
    [deviceId |-> Some(p.deviceId), sensorId |-> Some(p.sensorId), ts |-> Some(p.ts),
     valueType |-> p.valueType, valueTypeOf |-> "string", value |-> p.value]

\* the alert queue hands a message to alert(); the message stays when the
\* invocation raises
AlertDeliver ==
    \E body \in BagToSet(queues["alerts"]) :
        LET r == AlertRun(triggers, alerts, alertSeq, AlertItem(body.val))
        IN  /\ r.seq <= MaxAlertId
            /\ alerts' = r.rows
            /\ alertSeq' = r.seq
            /\ runs' = 1 - runs
            /\ queues' = IF r.threw THEN queues ELSE Dequeue("alerts", body)
            /\ UNCHANGED <<triggers, ev, scen>>

NextPipeline ==
    \/ \E input \in PipelineInputs :
          IngestStart(input, "unset") /\ UNCHANGED nonIngestVars
    \/ \E k \in DOMAIN iSend, q \in Queues : SendOk(k, q) /\ UNCHANGED nonIngestVars
    \/ \E k \in DOMAIN iSend, q \in Queues : SendFail(k, q) /\ UNCHANGED nonIngestVars
    \/ EventHubRedeliver /\ UNCHANGED nonIngestVars
    \/ \E w \in PipelineWriters :
          DbDeliver(w) /\ UNCHANGED <<alertVars, parseVars, ingestVars, blobVars,
                            normalizeVars, alertLog, httpLog, edgeVars>>
    \/ \E w \in PipelineWriters : WriterItem(w, TRUE) /\ UNCHANGED nonWriterVars
    \/ \E w \in PipelineWriters : WriterReturn(w) /\ UNCHANGED nonWriterVars
    \/ BlobDeliver /\ UNCHANGED <<alertVars, parseVars, ingestVars, writerVars,
                            normalizeVars, alertLog, httpLog, edgeVars>>
    \/ AlertDeliver /\ UNCHANGED <<parseVars, ingestVars, writerVars, blobVars,
                            normalizeVars, alertLog, httpLog, edgeVars>>

SpecPipeline ==
    InitPipeline /\ [][NextPipeline]_vars

----------------------------------------------------------------------------
(* Fan-out duplication *)

\* the first delivery sent element k to the archive queue and failed to send
\* it to the alert queue
DuplicatedBy(k) ==
    /\ Len(iPast) = 1
    /\ iPast[1][k]["blob"] = "ok"
    /\ iPast[1][k]["alerts"] = "fail"

\* the redelivered batch has been dispatched and every queue message consumed
Settled ==
    /\ iDeliveries = 2
    /\ iPc = "returned"
    /\ \A q \in Queues : queues[q] = EmptyBag
    /\ \A w \in 1..NumWriters : writers[w].pc \in {"idle", "returned"}

Copies(m) ==
    IF PartitionKey(m) \in DOMAIN blobs
    THEN Cardinality({j \in 1..Len(blobs[PartitionKey(m)]) :
                         blobs[PartitionKey(m)][j] = JSONstringify(m)})
    ELSE 0

NoAppendFailed == \A j \in 1..Len(blobLog) : blobLog[j].failed = 0

----------------------------------------------------------------------------
(* The time-series path with a database that may fail: ingest, the
   time-series queue and runTimescaleWriter *)

NextTimeSeriesPath ==
    \/ \E input \in PipelineInputs :
          IngestStart(input, "unset") /\ UNCHANGED nonIngestVars
    \/ \E k \in DOMAIN iSend, q \in Queues : SendOk(k, q) /\ UNCHANGED nonIngestVars
    \/ \E k \in DOMAIN iSend, q \in Queues : SendFail(k, q) /\ UNCHANGED nonIngestVars
    \/ EventHubRedeliver /\ UNCHANGED nonIngestVars
    \/ \E w \in PipelineWriters :
          DbDeliver(w) /\ UNCHANGED <<alertVars, parseVars, ingestVars, blobVars,
                            normalizeVars, alertLog, httpLog, edgeVars>>
    \/ \E w \in PipelineWriters, dbUp \in BOOLEAN :
          WriterItem(w, dbUp) /\ UNCHANGED nonWriterVars
    \/ \E w \in PipelineWriters : WriterReturn(w) /\ UNCHANGED nonWriterVars

SpecTimeSeriesPath == InitPipeline /\ [][NextTimeSeriesPath]_vars

\* the current or an earlier delivery put element k on the time-series queue
EnqueuedForDb(k) ==
    \/ iSend[k]["db"] = "ok"
    \/ \E d \in DOMAIN iPast : iPast[d][k]["db"] = "ok"

\* a writer invocation holds the message and has not ended
HeldByWriter(m) ==
    \E w \in 1..NumWriters :
        /\ writers[w].pc = "loop"
        /\ \E j \in DOMAIN writers[w].batch : parseBodyToObject(writers[w].batch[j]) = m

\* C11: a valid message that ingest has put on the time-series queue is
\* never lost: it is still on the queue, or held by a running writer
\* invocation, or table telemetry has a row with its key. (Once none of the
\* three holds, nothing is left that could insert the row.)
C11_NoLostTelemetry ==
    \A k \in DOMAIN iOk :
        EnqueuedForDb(k) =>
            \/ BagIn(JSONstringify(iOk[k]), queues["db"])
            \/ HeldByWriter(iOk[k])
            \/ RowsOfKey(telemetry, iOk[k]) # {}

----------------------------------------------------------------------------
(* The Archive Writer on its own: queue items of several partitions, a
   container that may be unreachable, blob calls that may fail *)

M3 == Msg("cpu-temp", 65 * Minute, 4, "number", JsNum(60))

BlobInputs ==
    {EvStringArray(<<M1, M2, MBool>>), EvArray(<<M1, M3>>), EvMessageText(MBool),
     EvGarbage}

BlobKeys(item) ==
    {PartitionKey(parseQueueMessages(item)[k]) : k \in 1..Len(parseQueueMessages(item))}

nonBlobVars == <<alertVars, parseVars, ingestVars, queues, writerVars, normalizeVars,
                 alertLog, httpLog, edgeVars>>

BlobInvoke(item, containerUp, outcome) ==
    /\ Len(blobLog) < MaxBlobRuns
    /\ LET r == runBlobWriter(blobs, blobLog, containerEnsured, item, containerUp, outcome)
       IN  /\ blobs' = r.blobs
           /\ blobLog' = r.log
           /\ containerEnsured' = r.ensured
    /\ UNCHANGED <<appenders, nonBlobVars>>

NextBlob ==
    \E item \in BlobInputs : \E containerUp \in BOOLEAN :
        \E outcome \in [BlobKeys(item) -> AppendOutcomes] :
            BlobInvoke(item, containerUp, outcome)

SpecBlob == InitPipeline /\ [][NextBlob]_vars

LinesOf(item, key) ==
    LET InKey(m) == PartitionKey(m) = key
        batch == SelectSeq(parseQueueMessages(item), InKey)
    IN  [k \in 1..Len(batch) |-> JSONstringify(batch[k])]

LinesIn(store, key) == IF key \in DOMAIN store THEN store[key] ELSE <<>>

FailedKeys(item, outcome) == {key \in BlobKeys(item) : outcome[key] # "ok"}

FailedCount(item, outcome) ==
    SumOver(FailedKeys(item, outcome),
            [key \in FailedKeys(item, outcome) |-> Len(LinesOf(item, key))])

\* C12: in an invocation of runBlobWriter that reaches the container, every
\* partition whose create and append calls succeed has its records appended
\* to its blob, whatever happens to the other partitions; the partitions whose
\* call failed are reported, their blobs keep their lines, and the failed
\* counter is the number of their messages.
C12_ArchiveFailureIsolation ==
    [][\A item \in BlobInputs : \A containerUp \in BOOLEAN :
        \A outcome \in [BlobKeys(item) -> AppendOutcomes] :
            (/\ ContainerReady(containerEnsured, containerUp)
             /\ BlobKeys(item) # {}
             /\ Len(blobLog') = Len(blobLog) + 1
             /\ BlobInvoke(item, containerUp, outcome)) =>
                /\ \A key \in BlobKeys(item) :
                      LinesIn(blobs', key) =
                          IF outcome[key] = "ok"
                          THEN LinesIn(blobs, key) \o LinesOf(item, key)
                          ELSE LinesIn(blobs, key)
                /\ blobLog'[Len(blobLog')].errors = FailedKeys(item, outcome)
                /\ blobLog'[Len(blobLog')].failed = FailedCount(item, outcome)
                /\ ~blobLog'[Len(blobLog')].raised]_vars

\* an invocation in which one partition failed and another was appended
C12_Witness ==
    \E j \in 1..Len(blobLog) :
        /\ blobLog[j].partitions >= 2
        /\ blobLog[j].failed > 0
        /\ blobLog[j].appended > 0
        /\ \E key \in DOMAIN blobs : blobs[key] # <<>>

\* C13: an invocation of runBlobWriter in which the append of at least one
\* partition failed raises.
C13_ArchiveFailureEscalation ==
    \A j \in 1..Len(blobLog) : blobLog[j].failed > 0 => blobLog[j].raised

----------------------------------------------------------------------------
(* Redelivery to the Alert Evaluator *)

\* the row that createAlert has written for m is in the table
CreatedBy(rows, m) ==
    LET t == TriggerOf(m)
        p == Get(parseMessage(m))
    IN  \E c \in rows :
            /\ c.deviceId = p.deviceId /\ c.sensorId = p.sensorId
            /\ c.startTs = p.tsIso
            /\ c.reason = buildReason(p.sensorId, p.value, Get(t).minValue,
                                      Get(t).maxValue)

\* C14: processing again an out-of-bounds measurement whose alert row exists,
\* open or closed, adds no row and changes startTs and endTs of no row.
C14_EvaluatorIdempotence ==
    [][\A m \in NumericMsgs :
        LET t == TriggerOf(m)
            p == Get(parseMessage(m))
        IN  (/\ ~IsNull(t)
             /\ outOfBounds(Get(t), p.value)
             /\ CreatedBy(alerts, m)
             /\ AlertInvoke(m))
            => /\ Ids(alerts') = Ids(alerts)
               /\ \A a \in alerts' : \E b \in alerts :
                     b.id = a.id /\ b.startTs = a.startTs /\ b.endTs = a.endTs]_vars

----------------------------------------------------------------------------
(* normalizeQueueMessage applied to every shape of queue trigger payload *)

NormalizerPayloads == {M1, MBool, NotAnObject}

NormalizerInputs ==
    {EvNull, EvNumber, EvGarbage, EvMessageTextGarbage, EvMessageTextNumber,
     EvWrapNull, EvBuffer(M1)}
    \cup {EvString(p) : p \in NormalizerPayloads}
    \cup {EvObject(p) : p \in NormalizerPayloads}
    \cup {EvMessageText(p) : p \in NormalizerPayloads}
    \cup {EvStringArray(q) : q \in SeqsUpTo(NormalizerPayloads, MaxBatch)}
    \cup {EvArray(q) : q \in SeqsUpTo(NormalizerPayloads, MaxBatch)}
    \cup {EvMessageTextArray(q) : q \in SeqsUpTo(NormalizerPayloads, MaxBatch)}

InitNormalize ==
    /\ qPayload \in {Some(x) : x \in NormalizerInputs}
    /\ qItems = <<>>
    /\ qPc = "called"
    /\ InitAlert /\ ParseOff /\ InitIngest /\ InitQueues /\ InitWriter /\ InitBlob
    /\ InitAlertLog /\ InitHttp /\ InitEdge

\* the function has no throw and calls JSON.parse inside try only
NormalizeCall ==
    /\ qPc = "called"
    /\ qItems' = normalizeQueueMessage(Get(qPayload))
    /\ qPc' = "returned"
    /\ UNCHANGED <<qPayload, alertVars, parseVars, ingestVars, queues, writerVars,
                   blobVars, alertLog, httpLog, edgeVars>>

NextNormalize == NormalizeCall

SpecNormalize == InitNormalize /\ [][NextNormalize]_vars

\* the text the normalizer hands to JSON.parse, if any
CarriesText(x) ==
    x.shape = "string" \/ (x.shape = "object" /\ x.body = "messageText")

UnparsableText(x) == CarriesText(x) /\ ~x.json

HoldsArray(x) ==
    \/ CarriesText(x) /\ x.json /\ x.val.json = "array"
    \/ x.shape = "array"

\* C15 (amended): normalizeQueueMessage returns a list and never throws; null
\* (or undefined) and an unparsable JSON string, bare or wrapped, yield the
\* empty list; a parsed or already-decoded array yields its elements; any
\* other value yields a one-element list.
C15_NormalizerContract ==
    /\ qPc # "raised"
    /\ qPc = "returned" =>
          LET x == Get(qPayload)
          IN  IF x.shape = "null" \/ UnparsableText(x) THEN qItems = <<>>
              ELSE IF HoldsArray(x) THEN qItems = x.elems
              ELSE Len(qItems) = 1

\* a JSON array of two or more elements, as text, has been normalized
C15_Witness ==
    /\ qPc = "returned"
    /\ ~IsNull(qPayload)
    /\ CarriesText(Get(qPayload)) /\ HoldsArray(Get(qPayload))
    /\ Len(qItems) >= 2
    /\ qItems = Get(qPayload).elems

\* C15 as stated: only an unparsable JSON string yields the empty list, an
\* array yields its elements, and every other value, null included, yields a
\* one-element list.
C15_NormalizerContractAsStated ==
    /\ qPc # "raised"
    /\ qPc = "returned" =>
          LET x == Get(qPayload)
          IN  IF UnparsableText(x) THEN qItems = <<>>
              ELSE IF HoldsArray(x) THEN qItems = x.elems
              ELSE Len(qItems) = 1

----------------------------------------------------------------------------
(* alert() on the items of the alert queue: text or decoded, well-formed or not *)

\* a queue item: whether it is a string, whether that string parses, whether
\* the (parsed) value is an object, and the object's fields
AlertQueueItem(isString, parses, isObject, msg) ==
    [isString |-> isString, parses |-> parses, isObject |-> isObject, msg |-> msg]

QText(m) == AlertQueueItem(TRUE, TRUE, TRUE, m)
QDecoded(m) == AlertQueueItem(FALSE, FALSE, TRUE, m)
QGarbage == AlertQueueItem(TRUE, FALSE, FALSE, NumericMsg("cpu-temp", 0, 75))
QTextNumber == AlertQueueItem(TRUE, TRUE, FALSE, NumericMsg("cpu-temp", 0, 75))
QNull == AlertQueueItem(FALSE, FALSE, FALSE, NumericMsg("cpu-temp", 0, 75))

\* valueType: 5
MsgValueTypeNumber ==
    [NumericMsg("cpu-temp", 0, 75) EXCEPT !.valueType = "5", !.valueTypeOf = "number"]

\* a sensor without a row in alert_triggers
MsgNoTrigger == NumericMsg("humidity", 0, 75)

AlertQueueItems ==
    {QText(m) : m \in RaceMsgs \cup IgnoredMsgs \cup DoorMsgs
                      \cup {MsgNoTrigger, MsgValueTypeNumber}}
    \cup {QDecoded(NumericMsg("cpu-temp", 0, 72)), QDecoded(MsgNoTrigger),
          QGarbage, QTextNumber, QNull}

\* the last line alert() logs before the measurement is evaluated, if it
\* stops there
AlertLogLine(trigs, m) ==
    IF parseMessageThrows(m) THEN "TypeError"
    ELSE IF IsNull(parseMessage(m))
    THEN "alert: skipped non-numeric or malformed message"
    ELSE IF IsNull(getEnabledTrigger(trigs, Get(parseMessage(m)).deviceId,
                                     Get(parseMessage(m)).sensorId))
    THEN "no enabled trigger"
    ELSE "alert: measurement"

\* alert(queueItem, context), lines 157-231
alert(trigs, rows, seq, queueItem) ==
    IF queueItem.isString /\ ~queueItem.parses
    THEN [rows |-> rows, seq |-> seq, threw |-> FALSE,
          log |-> "alert: invalid JSON message"]
    ELSE IF ~queueItem.isObject
    THEN [rows |-> rows, seq |-> seq, threw |-> FALSE,
          log |-> "alert: skipped non-numeric or malformed message"]
    ELSE LET r == AlertRun(trigs, rows, seq, queueItem.msg)
         IN  [rows |-> r.rows, seq |-> r.seq, threw |-> r.threw,
              log |-> AlertLogLine(trigs, queueItem.msg)]

\* an evaluator whose trigger lookup switches the trigger it found off
DisableTriggerRead(trigs, queueItem) ==
    {IF queueItem.msg.sensorId = Some(t.sensorId) THEN [t EXCEPT !.enabled = FALSE] ELSE t :
        t \in trigs}

\* table alert_triggers after alert(queueItem): the one statement on it is the
\* SELECT of getEnabledTrigger
TriggersAfterAlert(trigs, queueItem) == trigs

AlertHandle(item) ==
    /\ Len(alertLog) < MaxAlertRuns
    /\ LET r == alert(triggers, alerts, alertSeq, item)
       IN  /\ r.seq <= MaxAlertId
           /\ alerts' = r.rows
           /\ alertSeq' = r.seq
           /\ alertLog' = Append(alertLog, [line |-> r.log, raised |-> r.threw])
    /\ triggers' = TriggersAfterAlert(triggers, item)
    /\ UNCHANGED <<ev, scen, runs, parseVars, ingestVars, queues,
                   writerVars, blobVars, normalizeVars, httpLog, edgeVars>>

NextAlertQueue == \E item \in AlertQueueItems : AlertHandle(item)

SpecAlertQueue == InitPipeline /\ [][NextAlertQueue]_vars

\* not a measurement the evaluator can use: no JSON, no object, a field
\* missing, a valueType that is no string or not "number", a value that is
\* no number
Malformed(item) ==
    \/ item.isString /\ ~item.parses
    \/ ~item.isObject
    \/ IsNull(item.msg.deviceId) \/ IsNull(item.msg.sensorId) \/ IsNull(item.msg.ts)
    \/ item.msg.valueTypeOf \notin {"string", "undefined"}
    \/ item.msg.valueType \notin {"", "number"}
    \/ IsNull(item.msg.value.num)

NoEnabledTrigger(trigs, item) ==
    ~\E t \in trigs :
        /\ Some(t.deviceId) = item.msg.deviceId
        /\ Some(t.sensorId) = item.msg.sensorId
        /\ t.enabled

\* C16: an invocation of alert() on an item that is non-numeric or malformed,
\* or whose sensor has no trigger row or a disabled one, does not raise and
\* leaves table alerts as it was.
C16_IgnoredMeasurements ==
    [][\A item \in AlertQueueItems :
        (/\ Malformed(item) \/ NoEnabledTrigger(triggers, item)
         /\ AlertHandle(item))
        => /\ alerts' = alerts
           /\ ~alertLog'[Len(alertLog')].raised]_vars

----------------------------------------------------------------------------
(* The Dispatcher and the items the validator rejects *)

Delivered == normalizeEventHubBatch(iIn)

\* C17: an invocation of ingest whose batch holds no valid message, whatever
\* the number of invalid ones, has returned, has started no send, and has put
\* nothing on any of the three queues.
C17_EmptyOkNoOp ==
    (iPc # "idle" /\ NumValid(Delivered) = 0) =>
        /\ iPc = "returned"
        /\ iSend = <<>>
        /\ \A q \in Queues : queues[q] = EmptyBag

\* a batch of two items, both invalid, has been handled with a concurrency
\* setting that pMap would reject
C17_Witness ==
    /\ iPc = "returned"
    /\ Len(Delivered) = 2 /\ NumInvalid(Delivered) = 2
    /\ Concurrency(iEnv) < 1

AllSendsSucceeded ==
    \A k \in DOMAIN iSend : \A q \in Queues : iSend[k][q] = "ok"

\* C18: for a batch with at least one invalid item, once every send of the
\* invocation has succeeded, ingest has returned and each queue holds exactly
\* the serialized valid messages of the batch: no invalid item is on a queue.
C18_BadItemsStayOut ==
    (iPc # "idle" /\ NumInvalid(Delivered) >= 1 /\ AllSendsSucceeded) =>
        /\ iPc = "returned"
        /\ \A q \in Queues :
              queues[q] = BagOfSeq([k \in DOMAIN ValidPayloads(Delivered) |->
                                      JSONstringify(ValidPayloads(Delivered)[k])])

\* a batch with a schema-violating item and a valid one, the valid one sent
C18_Witness ==
    /\ iPc = "returned"
    /\ NumInvalid(Delivered) >= 1 /\ NumValid(Delivered) >= 1
    /\ \E k \in 1..Len(Delivered) : Delivered[k] = EvObject(BadVersion)
    /\ AllSendsSucceeded
    /\ \A q \in Queues : BagCardinality(queues[q]) = NumValid(Delivered)

----------------------------------------------------------------------------
(* The Time-Series Writer on batch messages and on unparsable numbers *)

\* the item is the text of a JSON array of schema-valid messages with
\* distinct keys
BatchText(item) ==
    /\ item.shape = "string" /\ item.json /\ item.val.json = "array"
    /\ Len(item.elems) >= 1
    /\ \A j \in DOMAIN item.elems : WriterSchemaOk(item.elems[j])
    /\ \A i, j \in DOMAIN item.elems :
          i # j => telemetry_pk(mapTelemetryToDb(item.elems[i]))
                     # telemetry_pk(mapTelemetryToDb(item.elems[j]))

DbAnswered(w) ==
    \A j \in 1..Len(writers[w].log) : writers[w].log[j] # "connection error"

\* C19: an invocation of runTimescaleWriter on a queue message whose text is
\* the JSON array of K valid messages with distinct keys, the database
\* answering, returns inserted = K and failed = 0, and table telemetry holds a
\* row for each element.
C19_BatchQueueMessage ==
    \A w \in 1..NumWriters :
        (/\ writers[w].pc = "returned"
         /\ Len(writers[w].batch) = 1
         /\ BatchText(writers[w].batch[1])
         /\ DbAnswered(w))
        => /\ writers[w].inserted = Len(writers[w].batch[1].elems)
           /\ writers[w].failed = 0
           /\ \A j \in DOMAIN writers[w].batch[1].elems :
                 RowsOfKey(telemetry, writers[w].batch[1].elems[j]) # {}

\* C20: when the writer has processed, the database answering, a schema-valid
\* message with valueType number whose value is no number, the item is logged
\* as inserted and table telemetry holds a row with its key, the raw value in
\* value_text and value_number and value_boolean null.
C20_NumericParseFallback ==
    \A w \in 1..NumWriters : \A j \in 1..Len(writers[w].log) :
        LET obj == parseBodyToObject(writers[w].batch[j])
        IN  (/\ WriterSchemaOk(obj)
             /\ obj.valueType = "number"
             /\ IsNull(obj.value.num)
             /\ writers[w].log[j] # "connection error")
            => /\ writers[w].log[j] = "inserted"
               /\ \E r \in RowsOfKey(telemetry, obj) :
                     /\ r.value_text = Some(obj.value.text)
                     /\ IsNull(r.value_number)
                     /\ IsNull(r.value_boolean)

----------------------------------------------------------------------------
(* The value columns of the rows the Time-Series Writer builds *)

\* the value column that belongs to a value_type
ColumnOf(valueType) ==
    IF valueType = "number" THEN "value_number"
    ELSE IF valueType = "boolean" THEN "value_boolean"
    ELSE "value_text"

NonNullColumns(row) ==
    {col \in {"value_number", "value_boolean", "value_text"} : ~IsNull(row[col])}

\* C21: for every schema-valid message the writer has processed, the row
\* mapTelemetryToDb builds from it has exactly one value column non-null, the
\* one that belongs to its value_type.
C21_SingleValueColumn ==
    \A w \in 1..NumWriters : \A j \in 1..Len(writers[w].log) :
        LET obj == parseBodyToObject(writers[w].batch[j])
        IN  WriterSchemaOk(obj) =>
                NonNullColumns(mapTelemetryToDb(obj)) = {ColumnOf(obj.valueType)}


----------------------------------------------------------------------------
(* Trigger API: GET /devices/{deviceId}/sensors/{sensorId}/trigger *)

MaxApiRequests == 3

\* a query parameter of the request: given or not, and its text
Absent == [given |-> FALSE, text |-> ""]
Given(text) == [given |-> TRUE, text |-> text]

\* getString: undefined for a missing parameter and for a blank one
getString(param) ==
    IF ~param.given \/ param.text \in {"", " "} THEN Null ELSE Some(param.text)

\* Number(text) of the texts the requests carry (null for NaN)
NumberOfParam(text) ==
    IF text = "60" THEN Some(60) ELSE IF text = "80" THEN Some(80) ELSE Null

\* parseOptionalNumberParam: [threw, n], n undefined (null here) when v is
ParseThrows(v) == ~IsNull(v) /\ IsNull(NumberOfParam(Get(v)))

parseOptionalNumberParam(v) ==
    IF IsNull(v) THEN Null ELSE NumberOfParam(Get(v))

\* table sensors as selectSensorValueType sees it
SensorRows ==
    { [deviceId |-> Device, sensorId |-> "cpu-temp", valueType |-> "number"],
      [deviceId |-> Device, sensorId |-> "room-temp", valueType |-> "number"],
      [deviceId |-> Device, sensorId |-> "humidity", valueType |-> "number"],
      [deviceId |-> Device, sensorId |-> "led", valueType |-> "boolean"] }

ensureNumericSensor(deviceId, sensorId) ==
    LET found == {r \in SensorRows : r.deviceId = deviceId /\ r.sensorId = sensorId}
    IN  IF found = {} THEN "missing"
        ELSE IF \E r \in found : r.valueType = "number" THEN "number" ELSE "other"

TriggerRowsOf(trigs, deviceId, sensorId) ==
    {t \in trigs : t.deviceId = deviceId /\ t.sensorId = sensorId}

\* readTrigger: null, or the row's bounds
readTrigger(trigs, deviceId, sensorId) ==
    LET found == TriggerRowsOf(trigs, deviceId, sensorId)
    IN  IF found = {} THEN Null
        ELSE LET row == CHOOSE t \in found : TRUE
             IN  Some([min |-> row.minValue, max |-> row.maxValue])

deleteAlertTrigger(trigs, deviceId, sensorId) ==
    trigs \ TriggerRowsOf(trigs, deviceId, sensorId)

NextTriggerId(trigs) ==
    IF trigs = {} THEN 1
    ELSE 1 + (CHOOSE n \in {t.id : t \in trigs} : \A t \in trigs : t.id <= n)

\* INSERT ... ON CONFLICT (device_id, sensor_id) DO UPDATE of the two bounds
upsertAlertTrigger(trigs, deviceId, sensorId, min, max) ==
    LET found == TriggerRowsOf(trigs, deviceId, sensorId)
    IN  IF found = {}
        THEN trigs \cup {[id |-> NextTriggerId(trigs), deviceId |-> deviceId,
                          sensorId |-> sensorId, minValue |-> min,
                          maxValue |-> max, enabled |-> TRUE]}
        ELSE {IF t \in found THEN [t EXCEPT !.minValue = min, !.maxValue = max]
                             ELSE t : t \in trigs}

\* willUpdate of getTrigger
WillUpdate(min, max) == ~IsNull(min) \/ ~IsNull(max)

\* upsertTrigger: [trigs, trigger]
upsertTrigger(trigs, deviceId, sensorId, min, max) ==
    IF IsNull(min) /\ IsNull(max)
    THEN [trigs |-> deleteAlertTrigger(trigs, deviceId, sensorId), trigger |-> Null]
    ELSE LET after == upsertAlertTrigger(trigs, deviceId, sensorId, min, max)
         IN  [trigs |-> after, trigger |-> readTrigger(after, deviceId, sensorId)]

ApiResponse(trigs, status, trigger) ==
    [trigs |-> trigs, status |-> status, alertTrigger |-> trigger]

\* getTrigger: the table after the request, and the response
getTrigger(trigs, req) ==
    LET minStr == getString(req.min)
        maxStr == getString(req.max)
        min == parseOptionalNumberParam(minStr)
        max == parseOptionalNumberParam(maxStr)
        kind == ensureNumericSensor(req.deviceId, req.sensorId)
    IN  IF ParseThrows(minStr) \/ ParseThrows(maxStr)
        THEN ApiResponse(trigs, 400, Null)
        ELSE IF kind = "missing" THEN ApiResponse(trigs, 404, Null)
        ELSE IF kind # "number" THEN ApiResponse(trigs, 400, Null)
        ELSE IF ~WillUpdate(min, max)
        THEN ApiResponse(trigs, 200, readTrigger(trigs, req.deviceId, req.sensorId))
        ELSE IF ~IsNull(min) /\ ~IsNull(max) /\ Get(min) > Get(max)
        THEN ApiResponse(trigs, 400, Null)
        ELSE LET r == upsertTrigger(trigs, req.deviceId, req.sensorId, min, max)
             IN  ApiResponse(r.trigs, 200, r.trigger)

ApiParams == {Absent, Given(""), Given("60"), Given("80"), Given("abc")}

ApiRequests ==
    [deviceId : {Device}, sensorId : {"cpu-temp", "humidity", "led", "ghost"},
     min : ApiParams, max : ApiParams]

TriggerRequest(req) ==
    /\ Len(httpLog) < MaxApiRequests
    /\ LET r == getTrigger(triggers, req)
       IN  /\ triggers' = r.trigs
           /\ httpLog' = Append(httpLog, [status |-> r.status,
                                          alertTrigger |-> r.alertTrigger])
    /\ UNCHANGED <<alerts, alertSeq, ev, scen, runs, parseVars, ingestVars, queues,
                   writerVars, blobVars, normalizeVars, alertLog, edgeVars>>

NextTriggerApi == \E req \in ApiRequests : TriggerRequest(req)

SpecTriggerApi == InitPipeline /\ [][NextTriggerApi]_vars

\* the request empties the parameter (min= or max= with nothing after it)
Emptied(param) == param.given /\ IsNull(getString(param))

\* C22: a request to the trigger endpoint that empties both min and max, for a
\* numeric sensor that has a trigger, leaves that sensor without a trigger row.
C22_ClearBothDeletes ==
    [][\A req \in ApiRequests :
          ( /\ TriggerRequest(req)
            /\ Emptied(req.min) /\ Emptied(req.max)
            /\ ensureNumericSensor(req.deviceId, req.sensorId) = "number"
            /\ TriggerRowsOf(triggers, req.deviceId, req.sensorId) # {} )
          => TriggerRowsOf(triggers', req.deviceId, req.sensorId) = {}]_vars

\* what the endpoint does instead: no request removes a trigger row
TriggerApiKeepsRows ==
    [][\A req \in ApiRequests : TriggerRequest(req) =>
          \A t \in triggers : TriggerRowsOf(triggers', t.deviceId, t.sensorId) # {}]_vars


----------------------------------------------------------------------------
(* Edge: the SQLite buffer and measurement-transferrer *)

MaxRowId == 3
MaxAttempts == 3

\* payloadJson of a row: a TelemetryMessage, or text parseTelemetryMessage rejects
Payloads == {"message", "invalid"}

RowIds(rows) == {r.id : r \in rows}

\* AUTOINCREMENT: one more than every id the table has ever held
NextRowId ==
    LET held == RowIds(measurements) \cup hub \cup {transferrer.id}
    IN  1 + (CHOOSE n \in held : \A i \in held : i <= n)

\* insertMeasurement: sentAt NULL, retryCount 0 by the column defaults
insertMeasurement(rows, id, ts, payload) ==
    rows \cup {[id |-> id, ts |-> ts, payloadJson |-> payload, sentAt |-> Null,
                retryCount |-> 0, lastError |-> ""]}

\* fetchUnsentBatch(db, 1): the rows that may come back as rows[0]
fetchUnsentBatch(rows) ==
    {r \in rows : IsNull(r.sentAt)
                  /\ \A o \in rows : IsNull(o.sentAt) => r.ts <= o.ts}

\* an error path that drops the row instead of counting the failure
DiscardFailed(rows, id, error) == {r \in rows : r.id # id}

markFailed(rows, id, error) ==
    {IF r.id = id THEN [r EXCEPT !.retryCount = r.retryCount + 1, !.lastError = error]
                  ELSE r : r \in rows}

deleteMeasurement(rows, id) == {r \in rows : r.id # id}

parseTelemetryMessageThrows(payloadJson) == payloadJson # "message"

Attempt(id, outcome) ==
    [pc |-> "fetch", id |-> id, attempts |-> transferrer.attempts + 1,
     outcome |-> outcome]

\* measurement-collector persistMeasurement, a process of its own
CollectorInsert(ts, payload) ==
    /\ NextRowId <= MaxRowId
    /\ measurements' = insertMeasurement(measurements, NextRowId, ts, payload)
    /\ UNCHANGED <<transferrer, hub>>

\* top of the loop up to the await of sender.send; a payload that does not
\* parse goes to the catch block in the same turn
TransferFetch ==
    /\ transferrer.pc = "fetch"
    /\ transferrer.attempts < MaxAttempts
    /\ \E row \in fetchUnsentBatch(measurements) :
          IF parseTelemetryMessageThrows(row.payloadJson)
          THEN /\ measurements' = markFailed(measurements, row.id, "parse")
               /\ transferrer' = Attempt(row.id, "failed")
          ELSE /\ transferrer' = [transferrer EXCEPT !.pc = "sending", !.id = row.id]
               /\ UNCHANGED measurements
    /\ UNCHANGED hub

\* sendEvent calls back without error: IoT Hub has the message
SendResolved ==
    /\ transferrer.pc = "sending"
    /\ hub' = hub \cup {transferrer.id}
    /\ transferrer' = [transferrer EXCEPT !.pc = "resolved"]
    /\ UNCHANGED measurements

\* sendEvent calls back with an error, whether or not the hub got the message
SendRejected(received) ==
    /\ transferrer.pc = "sending"
    /\ hub' = IF received THEN hub \cup {transferrer.id} ELSE hub
    /\ measurements' = markFailed(measurements, transferrer.id, "send")
    /\ transferrer' = Attempt(transferrer.id, "failed")

\* the continuation after await sender.send(msg)
TransferDelete ==
    /\ transferrer.pc = "resolved"
    /\ measurements' = deleteMeasurement(measurements, transferrer.id)
    /\ transferrer' = Attempt(transferrer.id, "sent")
    /\ UNCHANGED hub

\* SIGINT: process.exit(0) wherever the loop is; the service starts again
TransferRestart ==
    /\ transferrer.pc \in {"sending", "resolved"}
    /\ transferrer' = Attempt(transferrer.id, "exit")
    /\ UNCHANGED <<measurements, hub>>

NextEdge ==
    /\ \/ \E ts \in 1..2, payload \in Payloads : CollectorInsert(ts, payload)
       \/ TransferFetch
       \/ SendResolved
       \/ \E received \in BOOLEAN : SendRejected(received)
       \/ TransferDelete
       \/ TransferRestart
    /\ UNCHANGED <<alertVars, parseVars, ingestVars, queues, writerVars, blobVars,
                   normalizeVars, alertLog, httpLog, seqVars>>

SpecEdge == InitPipeline /\ [][NextEdge]_vars

RowOf(rows, id) == CHOOSE r \in rows : r.id = id

\* C23: a row leaves the buffer only in the step that follows the successful
\* completion of the send of that row's message (the hub holds the message);
\* an attempt that fails in parsing or sending leaves the row in the buffer
\* with sentAt null and retryCount one higher, and no other row changes.
C23_RemovesOnlySent ==
    [][/\ \A r \in measurements :
             r.id \notin RowIds(measurements') =>
                 /\ transferrer.pc = "resolved" /\ transferrer.id = r.id
                 /\ r.id \in hub
                 /\ transferrer'.outcome = "sent"
       /\ (transferrer'.attempts # transferrer.attempts /\ transferrer'.outcome = "failed") =>
             /\ transferrer'.id \in RowIds(measurements)
             /\ transferrer'.id \in RowIds(measurements')
             /\ LET before == RowOf(measurements, transferrer'.id)
                    after == RowOf(measurements', transferrer'.id)
                IN  /\ IsNull(after.sentAt)
                    /\ after.retryCount = before.retryCount + 1
                    /\ after.payloadJson = before.payloadJson /\ after.ts = before.ts
             /\ \A r \in measurements : r.id # transferrer'.id => r \in measurements'
      ]_vars

\* one row failed in sending and is still buffered; then another was sent
\* and deleted
C23_Witness ==
    /\ transferrer.outcome = "sent"
    /\ transferrer.id \in hub /\ transferrer.id \notin RowIds(measurements)
    /\ \E r \in measurements :
          /\ r.retryCount = 1 /\ r.lastError = "send" /\ IsNull(r.sentAt)
          /\ r.id \notin hub
    /\ \E r \in measurements : r.retryCount = 1 /\ r.lastError = "parse"


----------------------------------------------------------------------------
(* The evaluator at the bounds of a trigger *)

\* readings at, just inside and just outside max 70 (cpu-temp) and min 65
\* (room-temp), and legal readings late enough to close
BoundMsgs ==
    {NumericMsg("cpu-temp", t, v) : t \in {0, 5 * Minute}, v \in {70, 71}}
    \cup {NumericMsg("cpu-temp", 15 * Minute, 60)}
    \cup {NumericMsg("room-temp", 0, v) : v \in {64, 65}}
    \cup {NumericMsg("room-temp", 10 * Minute, 66)}

NextAlertBounds == \E m \in BoundMsgs : AlertInvoke(m)

SpecAlertBounds == InitPipeline /\ [][NextAlertBounds]_vars

\* the rows of the enabled trigger for (d, s), read from the table
EnabledTriggers(d, s) ==
    {t \in triggers : t.deviceId = d /\ t.sensorId = s /\ t.enabled}

\* C24: a numeric measurement (value, ts) for a sensor with an enabled trigger
\* and no open alert creates exactly one alert row, with startTs = ts, endTs
\* null and context.lastOutOfBoundsTs = ts, when min is set and value < min or
\* max is set and value > max; otherwise (a value equal to a bound included)
\* it leaves the table as it is.
C24_NoAlertOutOfBoundsCreates ==
    [][\A m \in BoundMsgs : \A t \in EnabledTriggers(Get(m.deviceId), Get(m.sensorId)) :
          (AlertInvoke(m) /\ OpenAlerts(alerts, t.deviceId, t.sensorId) = {})
          => LET value == Get(m.value.num)
                 ts == Get(m.ts)
             IN  IF \/ ~IsNull(t.minValue) /\ value < Get(t.minValue)
                    \/ ~IsNull(t.maxValue) /\ value > Get(t.maxValue)
                 THEN /\ alerts \subseteq alerts'
                      /\ Cardinality(alerts') = Cardinality(alerts) + 1
                      /\ \A a \in alerts' \ alerts :
                            /\ a.deviceId = t.deviceId /\ a.sensorId = t.sensorId
                            /\ a.startTs = ts /\ IsNull(a.endTs)
                            /\ a.context.lastOutOfBoundsTs = ts
                 ELSE alerts' = alerts]_vars

\* alerts were created by a reading above max and by one below min, the
\* second one for cpu-temp after its first was closed
C24_Witness ==
    /\ \E a \in alerts : a.sensorId = "room-temp" /\ IsOpen(a) /\ a.context.value = 64
    /\ \E a \in alerts : a.sensorId = "cpu-temp" /\ ~IsOpen(a)
    /\ \E a \in alerts : a.sensorId = "cpu-temp" /\ IsOpen(a) /\ a.startTs = 5 * Minute
                         /\ a.context.value = 71


\* C25: an out-of-bounds measurement at ts for a sensor whose alert is open
\* leaves the number of alert rows, every other row, and the open alert's id,
\* startTs and endTs as they were, and sets its context.lastOutOfBoundsTs to ts.
C25_OpenOutOfBoundsRefreshes ==
    [][\A m \in BoundMsgs : \A t \in EnabledTriggers(Get(m.deviceId), Get(m.sensorId)) :
        \A a \in OpenAlerts(alerts, t.deviceId, t.sensorId) :
          (AlertInvoke(m) /\ outOfBounds(t, Get(m.value.num)))
          => /\ Cardinality(alerts') = Cardinality(alerts)
             /\ alerts \ {a} \subseteq alerts'
             /\ \E b \in alerts' :
                   /\ b.id = a.id
                   /\ b.startTs = a.startTs /\ b.endTs = a.endTs
                   /\ b.context.lastOutOfBoundsTs = Get(m.ts)]_vars

\* an alert opened at T+5m after an earlier one was closed, refreshed by the
\* older reading at T
C25_Witness ==
    \E a \in alerts : /\ IsOpen(a) /\ a.startTs = 5 * Minute
                      /\ a.context.lastOutOfBoundsTs = 0
                      /\ \E b \in alerts : ~IsOpen(b) /\ b.sensorId = a.sensorId

\* C26: the context.lastOutOfBoundsTs of an open alert never decreases,
\* whatever the order in which measurements are processed.
C26_LastOutOfBoundsTsOnlyAdvances ==
    [][\A a \in alerts : \A b \in alerts' :
          (IsOpen(a) /\ b.id = a.id)
          => b.context.lastOutOfBoundsTs >= a.context.lastOutOfBoundsTs]_vars

\* the close maybeCloseAlert issues for item m against open alert a
ClosesAt(m, a) ==
    LET t == TriggerOf(m)
        p == parseMessage(m)
    IN  /\ ~IsNull(p) /\ ~IsNull(t)
        /\ ~outOfBounds(Get(t), Get(p).value)
        /\ getOpenAlert(alerts, Get(t).id) = Some(a)
        /\ CloseDue(a, Get(p).tsIso)

\* C27: whatever the order of the measurements, a close the evaluator issues
\* has endTs >= the alert's startTs, so no close is rejected by
\* alerts_end_after_start_chk and the invocation that issues it does not raise.
C27_CloseNeverPrecedesStart ==
    [][\A m \in NumericMsgs : \A a \in alerts :
          (AlertInvoke(m) /\ ClosesAt(m, a))
          => /\ Get(m.ts) >= a.startTs
             /\ alerts_end_after_start_chk([a EXCEPT !.endTs = m.ts])
             /\ ~AlertRun(triggers, alerts, alertSeq, m).threw]_vars


----------------------------------------------------------------------------
(* Concurrent invocations around a close *)

\* two readings above max 70 and a legal one late enough to close after the
\* first
CloseRaceMsgs ==
    {NumericMsg("cpu-temp", 0, 72), NumericMsg("cpu-temp", 5 * Minute, 75),
     NumericMsg("cpu-temp", 16 * Minute, 60)}

NextAlertClose ==
    \E p \in 1..NumEvaluators :
        \/ \E m \in CloseRaceMsgs : EvStart(p, m)
        \/ EvGetOpenAlert(p)
        \/ EvWrite(p)

SpecAlertClose == InitPipeline /\ [][NextAlertClose]_vars

\* C28: an alert row whose endTs is set is left as it is by every step of
\* every invocation, one that read the row while it was open included.
C28_ClosedAlertsAreFinal ==
    [][\A a \in alerts : ~IsOpen(a) => a \in alerts']_vars


\* what invocation p is about to write, from what it has read
WriteOf(p) ==
    AlertWrite(alerts, alertSeq, Get(ev[p].msg), Get(ev[p].trigger), ev[p].open)

\* invocation p saw no open alert and holds an out-of-bounds measurement
Creator(p) ==
    /\ ev[p].pc = "write"
    /\ IsNull(ev[p].open)
    /\ outOfBounds(Get(ev[p].trigger), Get(ev[p].msg).value)

\* C29: of two invocations for one sensor that both saw no open alert and
\* both hold an out-of-bounds measurement, the first to write creates exactly
\* one alert row and returns; the write of the other, made while that alert
\* is open, is rejected, stores nothing, and the invocation raises.
C29_RacingCreators ==
    [][\A p \in 1..NumEvaluators :
          (Creator(p) /\ EvWrite(p))
          => LET msg == Get(ev[p].msg)
             IN  IF OpenAlerts(alerts, msg.deviceId, msg.sensorId) = {}
                 THEN /\ ~WriteOf(p).threw
                      /\ alerts \subseteq alerts'
                      /\ Cardinality(alerts') = Cardinality(alerts) + 1
                      /\ \A a \in alerts' \ alerts :
                            IsOpen(a) /\ a.sensorId = msg.sensorId
                 ELSE /\ WriteOf(p).threw
                      /\ alerts' = alerts]_vars

\* both invocations have written: one row exists, one insert was rejected
C29_Witness ==
    /\ \A p \in 1..NumEvaluators : ev[p].pc = "idle"
    /\ alertSeq = 2
    /\ Cardinality(OpenAlerts(alerts, Device, "cpu-temp")) = 1
    /\ Cardinality(alerts) = 1


----------------------------------------------------------------------------
(* The evaluator beside the trigger API *)

\* requests that read, replace and move the bounds of cpu-temp's trigger
TriggerEdits ==
    {[deviceId |-> Device, sensorId |-> "cpu-temp", min |-> lo, max |-> hi] :
        lo \in {Absent, Given("60"), Given("80")}, hi \in {Absent, Given("80")}}

\* invocations and requests in any order, MaxAlertRuns of them in all
NextAlertTriggers ==
    /\ Len(alertLog) + Len(httpLog) < MaxAlertRuns
    /\ \/ \E item \in AlertQueueItems : AlertHandle(item)
       \/ \E req \in TriggerEdits : TriggerRequest(req)

SpecAlertTriggers == InitPipeline /\ [][NextAlertTriggers]_vars

----------------------------------------------------------------------------
(* Further properties of the evaluator, the dispatcher and the writers *)

\* C31: no invocation of the evaluator removes an alert row: the set of alert
\* ids after a step contains the set before it.
C31_AlertsNeverDeleted ==
    [][Ids(alerts) \subseteq Ids(alerts')]_vars

\* alerts were created, one was closed, and a later one is open
C31_Witness ==
    /\ \E a \in alerts : ~IsOpen(a) /\ a.sensorId = "cpu-temp"
    /\ \E a \in alerts : IsOpen(a) /\ a.sensorId = "cpu-temp"
    /\ \E a \in alerts : a.sensorId = "room-temp" /\ ~IsOpen(a)


\* QUEUE_ENQUEUE_CONCURRENCY as the operator reads it: the number set, 32
\* when it is missing, not a number or zero
ConfiguredLimit(env) ==
    CASE env = "1" -> 1
      [] env = "2" -> 2
      [] env = "-1" -> 0 - 1
      [] OTHER -> 32

\* messages with a queue send issued and not settled
Unsettled == {k \in DOMAIN iSend : \E q \in Queues : iSend[k][q] = "inflight"}

InFlight == {<<k, q>> \in (DOMAIN iSend) \X Queues : iSend[k][q] = "inflight"}

\* C32: at every point of an ingest invocation the messages whose fan-out
\* has started and not settled number at most the limit set by
\* QUEUE_ENQUEUE_CONCURRENCY (32 when missing, not a number or zero), and the
\* queue sends in flight at most three times that; under a limit below 1
\* nothing is dispatched.
C32_BoundedDispatchConcurrency ==
    iPc # "idle" =>
        LET limit == ConfiguredLimit(iEnv)
        IN  IF limit >= 1
            THEN /\ Cardinality(Unsettled) <= limit
                 /\ Cardinality(InFlight) <= 3 * limit
            ELSE Unsettled = {}

\* limit 2 and three valid messages: two fan-outs are in flight, the third
\* message waits
C32_Witness ==
    /\ iPc = "running" /\ iEnv = "2" /\ Len(iOk) = 3
    /\ Cardinality(Unsettled) = 2
    /\ iNext = 3
    /\ Cardinality(InFlight) = 6


\* C33: once an ingest invocation has raised, no queue send it issued is
\* still to settle, and no message of it reaches a queue afterwards.
C33_NoEnqueueAfterEnd ==
    [][iPc = "raised" => (InFlight = {} /\ queues' = queues)]_vars


----------------------------------------------------------------------------
(* The Dispatcher and the redelivery of a batch, no consumer running *)

\* one valid message under the default limit; three under a limit of 1
RedeliverCases ==
    { <<[isArray |-> TRUE, items |-> <<EvString(M1)>>], "unset">>,
      <<[isArray |-> TRUE, items |-> <<EvBuffer(M2), EvString(M1), EvWrapObject(MBool)>>],
        "1">> }

NextRedeliver ==
    /\ \/ \E case \in RedeliverCases : IngestStart(case[1], case[2])
       \/ \E k \in DOMAIN iSend, q \in Queues : SendOk(k, q)
       \/ \E k \in DOMAIN iSend, q \in Queues : SendFail(k, q)
       \/ EventHubRedeliver
    /\ UNCHANGED nonIngestVars

SpecRedeliver == InitPipeline /\ [][NextRedeliver]_vars

\* the sends of the delivery before the current one
LastDelivery == iPast[Len(iPast)]

Started(k) == \E q \in Queues : iSend[k][q] # "none"

C35_RowIsolationAndAccounting ==
    \A w \in 1..NumWriters :
        LET me == writers[w]
        IN  me.pc \in {"loop", "returned"} =>
              /\ Len(me.log) = me.i - 1
              /\ me.inserted + me.failed = Len(me.log)
              /\ me.inserted = Cardinality({j \in 1..Len(me.log) : me.log[j] = "inserted"})
              /\ \A j \in 1..Len(me.log) :
                    LET obj == parseBodyToObject(me.batch[j])
                    IN  /\ me.log[j] = "validation failed" <=> ~WriterSchemaOk(obj)
                        /\ me.log[j] = "inserted" =>
                              \E r \in telemetry :
                                  telemetry_pk(r) = telemetry_pk(mapTelemetryToDb(obj))
              /\ me.pc = "returned" => me.inserted + me.failed = Len(me.batch)

\* invocations have returned after an item that failed validation and after
\* an insert the database rejected, each with the following item inserted
C35_Witness ==
    /\ \E w \in 1..NumWriters :
          /\ writers[w].pc = "returned"
          /\ writers[w].log = <<"validation failed", "inserted">>
    /\ \E w \in 1..NumWriters :
          /\ writers[w].pc = "returned"
          /\ Len(writers[w].log) = 2
          /\ writers[w].log[1] \in {"check violation", "connection error"}
          /\ writers[w].log[2] = "inserted"


----------------------------------------------------------------------------
(* The Archive Writer on ids that need sanitizing *)

MSlash == [M2 EXCEPT !.sensorId = "cpu/temp"]
MLead == [M2 EXCEPT !.sensorId = " cpu-temp"]
MSpace == [M1 EXCEPT !.deviceId = "pi 01"]
MUnder == [M2 EXCEPT !.deviceId = "pi_01"]
MLongX == [M1 EXCEPT !.deviceId = "a128x"]
MLongY == [M2 EXCEPT !.deviceId = "a128y"]
MOther == [M1 EXCEPT !.deviceId = "pi-02"]

ArchiveIdInputs ==
    {EvArray(<<M1, MSlash>>), EvStringArray(<<MSpace, MBool, MUnder>>),
     EvArray(<<MLongX, MLongY>>), EvArray(<<M1, MOther, M3>>),
     EvMessageText(MLead)}

NextArchiveIds ==
    \E item \in ArchiveIdInputs : \E containerUp \in BOOLEAN :
        \E outcome \in [BlobKeys(item) -> AppendOutcomes] :
            BlobInvoke(item, containerUp, outcome)

SpecArchiveIds == InitPipeline /\ [][NextArchiveIds]_vars

\* what the partition is said to be keyed by: the hour and the two ids
SourceKey(m) == <<datePathParts(m.ts), m.deviceId, m.sensorId>>

SourceKeys(item) ==
    {SourceKey(parseQueueMessages(item)[k]) : k \in 1..Len(parseQueueMessages(item))}

\* C36: an invocation of the Archive Writer that reaches the container has
\* one partition for each (UTC hour of ts, deviceId, sensorId) among its
\* messages and every message in exactly one of them; a partition whose calls
\* succeed makes one append of its messages in input order, one line each,
\* all of one (hour, deviceId, sensorId); appended + failed is the number of
\* messages received.
C36_ArchiveGroupingAndAccounting ==
    [][\A item \in ArchiveIdInputs : \A containerUp \in BOOLEAN :
        \A outcome \in [BlobKeys(item) -> AppendOutcomes] :
            (/\ ContainerReady(containerEnsured, containerUp)
             /\ Len(blobLog') = Len(blobLog) + 1
             /\ BlobInvoke(item, containerUp, outcome)) =>
                LET done == blobLog'[Len(blobLog')]
                    messages == parseQueueMessages(item)
                IN  /\ done.partitions = Cardinality(SourceKeys(item))
                    /\ done.appended + done.failed = Len(messages)
                    /\ done.received = Len(messages)
                    /\ \A key \in BlobKeys(item) :
                          /\ outcome[key] = "ok" =>
                                LinesIn(blobs', key) =
                                    LinesIn(blobs, key) \o LinesOf(item, key)
                          /\ \A i, j \in 1..Len(LinesOf(item, key)) :
                                SourceKey(LinesOf(item, key)[i].val) =
                                    SourceKey(LinesOf(item, key)[j].val)]_vars


\* C38: the records of one archive blob all have the same UTC hour, the same
\* deviceId and the same sensorId, also for ids that differ only in
\* characters sanitizePathPart rewrites or beyond its cut.
C38_PartitionHomogeneity ==
    \A key \in DOMAIN blobs :
        \A i, j \in 1..Len(blobs[key]) :
            SourceKey(blobs[key][i].val) = SourceKey(blobs[key][j].val)


----------------------------------------------------------------------------
(* Archive Writer invocations running at the same time, one blob call at a
   time *)

\* a create that replaces the blob when it exists
createAlways(store, key) ==
    [k \in DOMAIN store \cup {key} |-> IF k = key THEN <<>> ELSE store[k]]

\* lines 343-347: blob.createIfNotExists
createIfNotExists(store, key) ==
    IF key \in DOMAIN store THEN store
    ELSE [k \in DOMAIN store \cup {key} |-> IF k = key THEN <<>> ELSE store[k]]

\* line 349: blob.appendBlock
appendBlock(store, key, data) == [store EXCEPT ![key] = @ \o data]

ArchiveStepInputs == {EvArray(<<M1, M3>>), EvMessageText(M2), EvGarbage}

ArchiveStarted == Len(blobLog) + Cardinality({a \in ArchiveInvocations : appenders[a].pc # "idle"})

\* lines 296-357 up to the start of the mappers: one per partition, all of
\* them at once under the default concurrency
ArchiveBegin(a, item, containerUp) ==
    /\ appenders[a].pc = "idle"
    /\ ArchiveStarted < MaxBlobRuns
    /\ LET messages == parseQueueMessages(item)
       IN  IF Len(messages) = 0
           THEN /\ blobLog' = Append(blobLog, BlobDone(0, 0, 0, 0, {}, FALSE))
                /\ UNCHANGED <<appenders, containerEnsured>>
           ELSE IF ~ContainerReady(containerEnsured, containerUp)
           THEN /\ blobLog' = Append(blobLog, BlobDone(Len(messages), 0, 0, 0, {}, TRUE))
                /\ UNCHANGED <<appenders, containerEnsured>>
           ELSE /\ appenders' = [appenders EXCEPT ![a] =
                      [pc |-> "mapping", item |-> <<item>>,
                       stage |-> [key \in BlobKeys(item) |-> "create"]]]
                /\ containerEnsured' = TRUE
                /\ UNCHANGED blobLog
    /\ UNCHANGED <<blobs, nonBlobVars>>

\* lines 343-347 of a mapper; a rejected call is caught at line 351
BlobCreate(a, key, succeeds) ==
    /\ appenders[a].pc = "mapping"
    /\ key \in DOMAIN appenders[a].stage
    /\ appenders[a].stage[key] = "create"
    /\ IF succeeds
       THEN /\ blobs' = createIfNotExists(blobs, key)
            /\ appenders' = [appenders EXCEPT ![a].stage[key] = "append"]
       ELSE /\ appenders' = [appenders EXCEPT ![a].stage[key] = "failed"]
            /\ UNCHANGED blobs
    /\ UNCHANGED <<blobLog, containerEnsured, nonBlobVars>>

\* line 349 of a mapper
BlobAppend(a, key, succeeds) ==
    /\ appenders[a].pc = "mapping"
    /\ key \in DOMAIN appenders[a].stage
    /\ appenders[a].stage[key] = "append"
    /\ IF succeeds
       THEN /\ blobs' = appendBlock(blobs, key, LinesOf(appenders[a].item[1], key))
            /\ appenders' = [appenders EXCEPT ![a].stage[key] = "appended"]
       ELSE /\ appenders' = [appenders EXCEPT ![a].stage[key] = "failed"]
            /\ UNCHANGED blobs
    /\ UNCHANGED <<blobLog, containerEnsured, nonBlobVars>>

\* lines 359-368: pMap has resolved, the counters are summed and logged
ArchiveEnd(a) ==
    /\ appenders[a].pc = "mapping"
    /\ LET item == appenders[a].item[1]
           stage == appenders[a].stage
           keys == DOMAIN stage
           ok == {key \in keys : stage[key] = "appended"}
       IN  /\ \A key \in keys : stage[key] \in {"appended", "failed"}
           /\ blobLog' = Append(blobLog,
                 BlobDone(Len(parseQueueMessages(item)), Cardinality(keys),
                          SumOver(ok, [key \in ok |-> Len(LinesOf(item, key))]),
                          SumOver(keys \ ok,
                                  [key \in keys \ ok |-> Len(LinesOf(item, key))]),
                          keys \ ok, FALSE))
    /\ appenders' = [appenders EXCEPT ![a] = IdleAppender]
    /\ UNCHANGED <<blobs, containerEnsured, nonBlobVars>>

NextArchiveSteps ==
    \E a \in ArchiveInvocations :
        \/ \E item \in ArchiveStepInputs : \E containerUp \in BOOLEAN :
              ArchiveBegin(a, item, containerUp)
        \/ \E key \in DOMAIN appenders[a].stage : \E succeeds \in BOOLEAN :
              BlobCreate(a, key, succeeds)
        \/ \E key \in DOMAIN appenders[a].stage : \E succeeds \in BOOLEAN :
              BlobAppend(a, key, succeeds)
        \/ ArchiveEnd(a)

SpecArchiveSteps == InitPipeline /\ [][NextArchiveSteps]_vars

IsPrefix(s, t) == Len(s) <= Len(t) /\ SubSeq(t, 1, Len(s)) = s

\* C37: whatever Archive Writer invocations run and however their blob calls
\* interleave, a blob that exists stays, and each step leaves its earlier
\* content as a prefix of its content (so nothing is deleted or truncated).
C37_ArchiveAppendOnly ==
    [][\A key \in DOMAIN blobs :
          key \in DOMAIN blobs' /\ IsPrefix(blobs[key], blobs'[key])]_vars

\* a blob holds the lines of one invocation followed by those of another
\* that was under way at the same time
C37_Witness ==
    /\ \E key \in DOMAIN blobs :
          blobs[key] = <<JSONstringify(M1), JSONstringify(M2)>>
    /\ \E key \in DOMAIN blobs :
          /\ blobs[key] = <<JSONstringify(M3)>>
          /\ \E a \in ArchiveInvocations :
                /\ appenders[a].pc = "mapping"
                /\ key \in DOMAIN appenders[a].stage
                /\ appenders[a].stage[key] = "appended"
    /\ \E a \in ArchiveInvocations :
          appenders[a].pc = "mapping" /\ appenders[a].item = <<EvMessageText(M2)>>


----------------------------------------------------------------------------
(* Edge: nextSeq, called by sensor-reader processes that share the buffer *)

MaxSeq == 3

\* a connection that writes without waiting for the write lock
mayWriteUnlocked(holder, p) == TRUE

\* SQLite lets one connection write at a time: a write statement starts when
\* no other connection holds the write lock
mayWrite(holder, p) == holder \in {"none", p}

SeqRows(rows, d, s) == {r \in rows : r.deviceId = d /\ r.sensorId = s}

\* INSERT OR IGNORE INTO sensor_seq ... VALUES (?, ?, 0) under the primary key
insertOrIgnoreSeq(rows, d, s) ==
    IF SeqRows(rows, d, s) # {} THEN rows
    ELSE rows \cup {[deviceId |-> d, sensorId |-> s, lastSeq |-> 0]}

\* SELECT lastSeq ...; (row?.lastSeq ?? 0) + 1
nextOf(rows, d, s) ==
    IF SeqRows(rows, d, s) = {} THEN 1
    ELSE (CHOOSE r \in SeqRows(rows, d, s) : TRUE).lastSeq + 1

\* UPDATE sensor_seq SET lastSeq=? WHERE deviceId=? AND sensorId=?
updateSeq(rows, d, s, next) ==
    {IF r.deviceId = d /\ r.sensorId = s THEN [r EXCEPT !.lastSeq = next] ELSE r :
        r \in rows}

\* persistMeasurement calls nextSeq: BEGIN, then the INSERT OR IGNORE takes
\* the write lock
SeqInsert(p, s) ==
    /\ readers[p].pc = "idle"
    /\ Len(seqLog[s]) + Cardinality({q \in SensorReaders : readers[q].sensorId = s}) < MaxSeq
    /\ mayWrite(dbWriter, p)
    /\ dbWriter' = p
    /\ sensor_seq' = insertOrIgnoreSeq(sensor_seq, Device, s)
    /\ readers' = [readers EXCEPT ![p] =
                      [pc |-> "select", sensorId |-> s, next |-> 0, undo |-> sensor_seq]]
    /\ UNCHANGED seqLog

\* the lock is held by another connection for longer than busy_timeout: the
\* statement fails with SQLITE_BUSY, the transaction is rolled back and
\* nextSeq throws
SeqBusy(p) ==
    /\ readers[p].pc = "idle"
    /\ ~mayWrite(dbWriter, p)
    /\ readers' = [readers EXCEPT ![p] = [IdleReader EXCEPT !.pc = "thrown"]]
    /\ UNCHANGED <<sensor_seq, dbWriter, seqLog>>

\* the sensor-reader's next round after a failed one
SeqRetry(p) ==
    /\ readers[p].pc = "thrown"
    /\ readers' = [readers EXCEPT ![p] = IdleReader]
    /\ UNCHANGED <<sensor_seq, dbWriter, seqLog>>

SeqSelect(p) ==
    /\ readers[p].pc = "select"
    /\ readers' = [readers EXCEPT ![p].pc = "update",
                                  ![p].next = nextOf(sensor_seq, Device, readers[p].sensorId)]
    /\ UNCHANGED <<sensor_seq, dbWriter, seqLog>>

SeqUpdate(p) ==
    /\ readers[p].pc = "update"
    /\ sensor_seq' = updateSeq(sensor_seq, Device, readers[p].sensorId, readers[p].next)
    /\ readers' = [readers EXCEPT ![p].pc = "commit"]
    /\ UNCHANGED <<dbWriter, seqLog>>

\* COMMIT, and tx() returns next
SeqCommit(p) ==
    /\ readers[p].pc = "commit"
    /\ dbWriter' = IF dbWriter = p THEN "none" ELSE dbWriter
    /\ seqLog' = [seqLog EXCEPT ![readers[p].sensorId] = Append(@, readers[p].next)]
    /\ readers' = [readers EXCEPT ![p] = IdleReader]
    /\ UNCHANGED sensor_seq

\* the process is killed inside the transaction: SQLite rolls it back
SeqKilled(p) ==
    /\ readers[p].pc \in {"select", "update", "commit"}
    /\ sensor_seq' = readers[p].undo
    /\ dbWriter' = IF dbWriter = p THEN "none" ELSE dbWriter
    /\ readers' = [readers EXCEPT ![p] = IdleReader]
    /\ UNCHANGED seqLog

NextSeqs ==
    /\ \E p \in SensorReaders :
          \/ \E s \in SeqSensors : SeqInsert(p, s)
          \/ SeqBusy(p)
          \/ SeqRetry(p)
          \/ SeqSelect(p)
          \/ SeqUpdate(p)
          \/ SeqCommit(p)
          \/ SeqKilled(p)
    /\ UNCHANGED <<alertVars, parseVars, ingestVars, queues, writerVars, blobVars,
                   normalizeVars, alertLog, httpLog, measurements, transferrer, hub>>

SpecSeqs == InitPipeline /\ [][NextSeqs]_vars

\* C39: for each sensor the values nextSeq returns are 1, 2, 3, ... in the
\* order of the calls' returns, whichever process made the call (so no two
\* calls obtain the same seq), and when no call is inside its transaction
\* the persisted lastSeq is the last value returned.
C39_SeqUniqueIncreasing ==
    \A s \in SeqSensors :
        /\ \A k \in 1..Len(seqLog[s]) : seqLog[s][k] = k
        /\ dbWriter = "none" =>
              \/ /\ seqLog[s] = <<>>
                 /\ \A r \in SeqRows(sensor_seq, Device, s) : r.lastSeq = 0
              \/ /\ seqLog[s] # <<>>
                 /\ SeqRows(sensor_seq, Device, s) =
                       {[deviceId |-> Device, sensorId |-> s, lastSeq |-> Len(seqLog[s])]}

\* two values have been returned for one sensor, a third call holds the lock
\* for it and the other process's call on the same sensor has been refused
C39_Witness ==
    /\ seqLog["cpu-temp"] = <<1, 2>>
    /\ readers["reader1"].pc = "commit" /\ readers["reader1"].sensorId = "cpu-temp"
    /\ readers["reader1"].next = 3
    /\ readers["reader2"].pc = "thrown"
    /\ seqLog["door"] = <<1>>


----------------------------------------------------------------------------
(* Edge: the transferrer that keeps running. Its loop has no bound on its
   rounds: retryCount, which no statement reads, is held at MaxAttempts once
   it reaches it, and the attempts are counted round and round through
   1..MaxAttempts, so that every round of the loop is a step. *)

Held(n) == IF n < MaxAttempts THEN n + 1 ELSE MaxAttempts

markFailedHeld(rows, id, error) ==
    {IF r.id = id THEN [r EXCEPT !.retryCount = Held(r.retryCount), !.lastError = error]
                  ELSE r : r \in rows}

AttemptHeld(id, outcome) ==
    [pc |-> "fetch", id |-> id, attempts |-> (transferrer.attempts % MaxAttempts) + 1,
     outcome |-> outcome]

\* one round of the loop up to the await of sender.send, or through the catch
\* block when the payload does not parse
LoopFetch ==
    /\ transferrer.pc = "fetch"
    /\ \E row \in fetchUnsentBatch(measurements) :
          IF parseTelemetryMessageThrows(row.payloadJson)
          THEN /\ measurements' = markFailedHeld(measurements, row.id, "parse")
               /\ transferrer' = AttemptHeld(row.id, "failed")
          ELSE /\ transferrer' = [transferrer EXCEPT !.pc = "sending", !.id = row.id]
               /\ UNCHANGED measurements
    /\ UNCHANGED hub

LoopSendRejected(received) ==
    /\ transferrer.pc = "sending"
    /\ hub' = IF received THEN hub \cup {transferrer.id} ELSE hub
    /\ measurements' = markFailedHeld(measurements, transferrer.id, "send")
    /\ transferrer' = AttemptHeld(transferrer.id, "failed")

LoopDelete ==
    /\ transferrer.pc = "resolved"
    /\ measurements' = deleteMeasurement(measurements, transferrer.id)
    /\ transferrer' = AttemptHeld(transferrer.id, "sent")
    /\ UNCHANGED hub

nonTransferVars == <<alertVars, parseVars, ingestVars, queues, writerVars, blobVars,
                     normalizeVars, alertLog, httpLog, seqVars>>

NextTransfer ==
    /\ \/ \E ts \in 1..2, payload \in Payloads :
             NextRowId < MaxRowId /\ CollectorInsert(ts, payload)
       \/ LoopFetch
       \/ SendResolved
       \/ \E received \in BOOLEAN : LoopSendRejected(received)
       \/ LoopDelete
    /\ UNCHANGED nonTransferVars

\* the loop keeps taking its rounds, and a send that is tried again and again
\* succeeds in the end (outages are transient)
SpecTransfer ==
    /\ InitPipeline
    /\ [][NextTransfer]_vars
    /\ WF_vars(LoopFetch /\ UNCHANGED nonTransferVars)
    /\ WF_vars(LoopDelete /\ UNCHANGED nonTransferVars)
    /\ SF_vars(SendResolved /\ UNCHANGED nonTransferVars)

\* C40: while the transferrer keeps running and sends succeed in the end,
\* every buffered measurement with a valid payload is eventually sent to the
\* hub and removed from the buffer, also when a row with an earlier ts has a
\* payload that can never be sent.
C40_TransferProgress ==
    \A id \in 1..MaxRowId :
        (\E r \in measurements : r.id = id /\ ~parseTelemetryMessageThrows(r.payloadJson))
            ~> (id \in hub /\ id \notin RowIds(measurements))

\* the same for a buffer in which no row is older than the valid row and
\* invalid: progress past rows that can be sent
TransferProgressBehindValid ==
    \A id \in 1..MaxRowId :
        (\E r \in measurements : r.id = id /\ ~parseTelemetryMessageThrows(r.payloadJson))
            ~> \/ id \in hub /\ id \notin RowIds(measurements)
               \/ \E o \in measurements :
                     parseTelemetryMessageThrows(o.payloadJson) /\ IsNull(o.sentAt)

====
